---- MODULE Spec2Model ----
(***************************************************************************)
(* buf-push-action: the push reconciliation of                             *)
(* internal/bufpushaction (push, tagExistingCommit, newGithubClient,       *)
(* commonSetup, resolveTrack) as a state machine.  One invocation of the   *)
(* push subcommand is a process that walks through its blocking remote     *)
(* calls; the registry and the github client answer as the collaborators   *)
(* behind the interfaces may (the test fakes script exactly these answers).*)
(***************************************************************************)
EXTENDS Integers, Sequences, FiniteSets, TLC

\* ------------------------------------------------------------------------
\* Bounds of the model
\* ------------------------------------------------------------------------
\* longest list of tags on a track head
MaxTags == 3

\* the invocations of the push subcommand that exist in the model
Procs == {1, 2}

\* ------------------------------------------------------------------------
\* Strings.  Tags and git commits are sequences of one-character strings so
\* that len() and hex decoding are computed; names are TLA+ strings.
\* ------------------------------------------------------------------------
ShaLen == 40

Rep(c, n) == [i \in 1..n |-> c]

\* encoding/hex fromHexChar: 0-9, a-f and A-F decode
HexChars ==
  {"0", "1", "2", "3", "4", "5", "6", "7", "8", "9",
   "a", "b", "c", "d", "e", "f", "A", "B", "C", "D", "E", "F"}

LowerHexChars ==
  {"0", "1", "2", "3", "4", "5", "6", "7", "8", "9",
   "a", "b", "c", "d", "e", "f"}

\* hex.DecodeString(s) returns no error: even length, every byte a hex digit
HexDecodeOK(s) == Len(s) % 2 = 0 /\ \A i \in 1..Len(s) : s[i] \in HexChars

\* the tag filter without its length test
IsGitCommitTagAnyLength(tagName) == HexDecodeOK(tagName)

\* the tag filter of push: len(tagName) == 40 and hex.DecodeString succeeds
IsGitCommitTag(tagName) == Len(tagName) = ShaLen /\ HexDecodeOK(tagName)

RECURSIVE FilterTagsFrom(_, _)
FilterTagsFrom(all, i) ==
  IF i > Len(all) THEN <<>>
  ELSE IF IsGitCommitTag(all[i]) THEN <<all[i]>> \o FilterTagsFrom(all, i + 1)
  ELSE FilterTagsFrom(all, i + 1)

\* the candidates in the reverse of their order on the commit
FilterTagsReversed(all) ==
  LET f == FilterTagsFrom(all, 1) IN [i \in 1..Len(f) |-> f[Len(f) + 1 - i]]

\* the loop "for _, tag := range repositoryCommit.Tags" that builds tags
FilterTags(all) == FilterTagsFrom(all, 1)

\* the spec's shape of a git commit tag: ^[0-9a-f]{40}$
MatchesLowerHex40(s) == Len(s) = ShaLen /\ \A i \in 1..Len(s) : s[i] \in LowerHexChars

\* strings.Split(s, "/") has exactly two parts
SplitLen(s) == Cardinality({i \in 1..Len(s) : s[i] = "/"}) + 1

\* ------------------------------------------------------------------------
\* Input pools
\* ------------------------------------------------------------------------
testGitCommit1 == [i \in 1..ShaLen |-> IF i % 2 = 1 THEN "f" ELSE "1"]
testGitCommit2 == [i \in 1..ShaLen |-> IF i % 4 = 0 THEN "e" ELSE "b"]
\* 40 hex digits, the last one upper case
UpperHexTag == [i \in 1..ShaLen |-> IF i = ShaLen THEN "F" ELSE "c"]
\* 40 characters, the last one no hex digit
NonHexTag == [i \in 1..ShaLen |-> IF i = ShaLen THEN "g" ELSE "a"]
\* hex digits, of even length, but not 40 of them
ShortTag == Rep("a", ShaLen - 2)

TagPool == {testGitCommit1, testGitCommit2, UpperHexTag, NonHexTag, ShortTag}

\* the tags of a commit have distinct names
HeadTagLists ==
  {l \in UNION {[1..n -> TagPool] : n \in 0..MaxTags} :
     \A i, j \in 1..Len(l) : l[i] = l[j] => i = j}

testMainTrack == "main"
testNonMainTrack == "non-main"
NamePool == {"", testMainTrack, testNonMainTrack}

GitCommitPool == {<<>>, testGitCommit2}

BsrCommitPool == {"c0", "c1"}

\* config stands for what bufcli.NewConfig makes of the environment
DefaultEnv ==
  [bufToken |-> "buf-token", githubToken |-> "github-token",
   githubRepository |-> <<"o", "/", "r">>, githubAPIURL |-> "https://api.github.com",
   config |-> "ok"]

\* the default environment and every environment with one variable off
EnvPool ==
  {DefaultEnv,
   [DefaultEnv EXCEPT !.bufToken = ""],
   [DefaultEnv EXCEPT !.githubToken = ""],
   [DefaultEnv EXCEPT !.githubRepository = <<>>],
   [DefaultEnv EXCEPT !.githubRepository = <<"o">>],
   [DefaultEnv EXCEPT !.githubAPIURL = ":foo"],
   [DefaultEnv EXCEPT !.config = "bad"]}

\* the input directories: none, a module, a module without files, no module
testInput == "./testdata/success"
emptyModuleInput == "./testdata/empty_module"
missingInput == "./missing"
InputPool == {"", testInput, emptyModuleInput, missingInput}

ArgsPool ==
  [input : InputPool, track : NamePool, defaultBranch : NamePool,
   refName : NamePool, currentGitCommit : GitCommitPool]

testModuleName == "buf.build/foo/bar"

\* ------------------------------------------------------------------------
\* Collaborator answers
\* ------------------------------------------------------------------------
\* rpc error codes the code branches on; "Other" is any other error
RpcNotFound == "NotFound"
RpcAlreadyExists == "AlreadyExists"
RpcFailedPrecondition == "FailedPrecondition"
RpcOther == "Other"
NoErr == "nil"
RpcErrs == {RpcNotFound, RpcAlreadyExists, RpcFailedPrecondition, RpcOther}

\* the answers scripted for each call: the codes its caller tells apart
HeadErrs == {NoErr} \cup RpcErrs
PushErrs == {NoErr, RpcAlreadyExists, RpcOther}
RepositoryErrs == {NoErr, RpcNotFound, RpcOther}
CreateTagErrs == {NoErr, RpcNotFound, RpcAlreadyExists, RpcOther}

\* github.CompareCommitsStatus, iota + 1; 0 is the zero value
CompareCommitsStatusDiverged == 1
CompareCommitsStatusIdentical == 2
CompareCommitsStatusAhead == 3
CompareCommitsStatusBehind == 4
StatusPool == 0..4

\* errors of the github client: a 404 error response, or anything else
GhNotFound == "gh404"
GhOther == "ghOther"

\* answers of githubClient.CompareCommits
CompareAnswers ==
  [status : StatusPool, err : {NoErr}] \cup [status : {0}, err : {GhNotFound, GhOther}]

\* github.IsResponseError(http.StatusNotFound, err)
IsResponseErrorNotFound(e) == e = GhNotFound

NoCommit == [name |-> "", tags |-> <<>>, nil |-> TRUE]

\* ------------------------------------------------------------------------
\* State
\* ------------------------------------------------------------------------
VARIABLES
  active,           \* the invocations that run
  args,             \* container.Arg(0..4) of each invocation
  env,              \* container.Env of each invocation
  pc,               \* position of each invocation in push
  track,            \* the effective track, args.resolveTrack()
  repositoryCommit, \* the head fetched by GetRepositoryCommitByReference
  tags,             \* the candidate tags kept by the filter
  idx,              \* position of the comparison loop in tags
  commitName,       \* the commit name push reports
  ret,              \* what push returned: running, ok, or an error
  stdout,           \* the lines written to container.Stdout()
  calls,            \* every call made on a collaborator, in order
  rt,               \* the (track, defaultBranch, refName) under test and its results
  registry,         \* the commits the registry holds, oldest first
  github,           \* the git history the github client compares commits in
  exit              \* what left the process: the error of appcmd.Run, stderr, the exit code

vars ==
  <<active, args, env, pc, track, repositoryCommit, tags, idx, commitName,
    ret, stdout, calls, rt, registry, github, exit>>

Running == [state |-> "running", msg |-> ""]
Ok == [state |-> "ok", msg |-> ""]
Err(m) == [state |-> "error", msg |-> m]

\* the process has not ended
NoExit == [exited |-> FALSE, err |-> <<>>, stderr |-> <<>>, code |-> 0]

\* error texts of the code
ErrBufToken == "buf_token is empty"
ErrInput == "input is empty"
ErrTrack == "track is empty"
ErrDefaultBranch == "default_branch is empty"
ErrRefName == "github.ref_name is empty"
ErrGithubSha == "github.sha is empty"
ErrCrossBranch == "cannot push to main track from a non-default branch"
ErrGithubToken == "github_token is empty"
ErrGithubRepositoryEmpty == "GITHUB_REPOSITORY is empty"
ErrGithubRepositoryFormat == "GITHUB_REPOSITORY is not in the format owner/repo"
ErrParseURL == "parse: missing protocol scheme"
ErrUnexpectedStatus == "unexpected status: %s"
ErrRepositoryMissing == "a repository named %q does not exist"
ErrReferenceMissing == "%s:%s does not exist"
ErrTagExists == "%s:%s already exists with different content"
ErrProvider == "newRegistryProvider failed"
ErrReadModule == "ReadModuleWithWorkspacesDisabled failed"
ErrProtoModule == "ModuleToProtoModule failed"
ErrNewService == "service constructor failed"

NoticeIdentical == "Skipping because the current git commit is already the head of track %s"
NoticeBehind == "Skipping because the current git commit is behind the head of track %s"
NoticeDiverged == "The current git commit is diverged from the head of track %s"

commitOutputID == "commit"
commitURLOutputID == "commit_url"

\* writeNotice
Notice(text, t) == [kind |-> "notice", name |-> text, value |-> <<t>>]

\* setOutput
Output(name, value) == [kind |-> "set-output", name |-> name, value |-> value]

\* fmt.Sprintf("https://%s/tree/%s", moduleIdentity.IdentityString(), commitName)
CommitURL(identity, commit) == <<"https://", identity, "/tree/", commit>>

\* only the commit is set as output
SuccessOutputsCommitOnly(commit) == <<Output(commitOutputID, <<commit>>)>>

\* the two setOutput calls that end a successful push
SuccessOutputs(commit) ==
  <<Output(commitOutputID, <<commit>>),
    Output(commitURLOutputID, CommitURL(testModuleName, commit))>>

Call(p, op, a, res) == [proc |-> p, op |-> op, args |-> a, res |-> res]

\* ------------------------------------------------------------------------
\* TrackResolver
\* ------------------------------------------------------------------------
\* func (a *commonArgs) resolveTrack() string
commonArgs_resolveTrack(a) ==
  IF a.track = a.defaultBranch /\ a.track = a.refName THEN testMainTrack ELSE a.track

\* resolveTrack without the case of an empty ref name
resolveTrackRefNameOnly(t, defaultBranch, refName) ==
  IF t = defaultBranch /\ t = refName THEN testMainTrack ELSE t

\* func resolveTrack(track, defaultBranch, refName string) string
resolveTrack(t, defaultBranch, refName) ==
  IF t = defaultBranch /\ (t = refName \/ refName = "") THEN testMainTrack ELSE t

\* the guard with the ref name test left out of the comparison
CrossBranchMainNever(a) ==
  a.defaultBranch # "main" /\ a.track = testMainTrack /\ a.track = a.defaultBranch

\* the guard that only looks at the requested track
CrossBranchMainOverridden(a) ==
  a.defaultBranch # "main" /\ a.track = testMainTrack /\ a.track # a.refName

\* the guard of push in front of resolveTrack
CrossBranchMain(a) ==
  a.defaultBranch # "main" /\ a.track = testMainTrack /\ a.track = a.refName

\* ------------------------------------------------------------------------
\* commonSetup and the validation at the head of push
\* ------------------------------------------------------------------------
\* the error commonSetup returns, "" for none
commonSetup(e, a) ==
  IF e.bufToken = "" THEN ErrBufToken
  ELSE IF e.config # "ok" THEN ErrProvider
  ELSE IF a.input = "" THEN ErrInput
  ELSE IF a.track = "" THEN ErrTrack
  ELSE IF a.defaultBranch = "" THEN ErrDefaultBranch
  ELSE IF a.refName = "" THEN ErrRefName
  ELSE IF a.input = missingInput THEN ErrReadModule
  ELSE ""

\* the error push returns before its first remote call, "" for none
pushValidation(e, a) ==
  IF commonSetup(e, a) # "" THEN commonSetup(e, a)
  ELSE IF a.currentGitCommit = <<>> THEN ErrGithubSha
  ELSE IF a.input = emptyModuleInput THEN ErrProtoModule
  ELSE IF CrossBranchMain(a) THEN ErrCrossBranch
  ELSE ""

\* the error newGithubClient returns, "" for none
newGithubClient(e) ==
  IF e.githubAPIURL = ":foo" THEN ErrParseURL
  ELSE IF e.githubToken = "" THEN ErrGithubToken
  ELSE IF e.githubRepository = <<>> THEN ErrGithubRepositoryEmpty
  ELSE IF SplitLen(e.githubRepository) # 2 THEN ErrGithubRepositoryFormat
  ELSE ""

\* the result set, and the run left where it is
ReturnStays(p, r) ==
  /\ pc' = pc
  /\ ret' = [ret EXCEPT ![p] = r]

Return(p, r) ==
  /\ pc' = [pc EXCEPT ![p] = "done"]
  /\ ret' = [ret EXCEPT ![p] = r]

\* push, from its entry to the call of GetRepositoryCommitByReference
Setup(p) ==
  /\ p \in active /\ pc[p] = "start"
  /\ LET e == pushValidation(env[p], args[p]) IN
       IF e # ""
       THEN /\ Return(p, Err(e))
            /\ UNCHANGED track
       ELSE /\ track' = [track EXCEPT ![p] = commonArgs_resolveTrack(args[p])]
            /\ pc' = [pc EXCEPT ![p] = "getHead"]
            /\ UNCHANGED ret
  /\ UNCHANGED <<exit, active, args, env, repositoryCommit, tags, idx, commitName,
                 stdout, calls, rt>>

\* ------------------------------------------------------------------------
\* push: the head of the track and the candidate tags
\* ------------------------------------------------------------------------
HeadAnswers ==
  [commit : [name : {"c0"}, tags : HeadTagLists, nil : {FALSE}], err : HeadErrs]

\* only NotFound counts as a track without history
HeadErrToleratedNotFoundOnly(e) == e = RpcNotFound

\* the error codes of GetRepositoryCommitByReference that push goes on from
HeadErrTolerated(e) == e \in {RpcNotFound, RpcFailedPrecondition}

\* repositoryCommit after the error switch
HeadAfterErr(ans) == IF ans.err # NoErr THEN NoCommit ELSE ans.commit

\* the candidate tags: none without a head, the filtered tags otherwise
CandidateTags(head) == IF head.nil THEN <<>> ELSE FilterTags(head.tags)

\* push, from NewRepositoryCommitService to newGithubClient
GetTrackHead(p, svcErr, ans) ==
  /\ p \in active /\ pc[p] = "getHead"
  /\ IF svcErr
     THEN /\ calls' = Append(calls, Call(p, "NewRepositoryCommitService", <<>>, RpcOther))
          /\ Return(p, Err(ErrNewService))
          /\ UNCHANGED <<repositoryCommit, tags, idx>>
     ELSE /\ calls' = calls \o
                 <<Call(p, "NewRepositoryCommitService", <<>>, NoErr),
                   Call(p, "GetRepositoryCommitByReference", <<track[p]>>, ans.err)>>
          /\ IF ans.err # NoErr /\ ~HeadErrTolerated(ans.err)
             THEN /\ Return(p, Err(ans.err))
                  /\ UNCHANGED <<repositoryCommit, tags, idx>>
             ELSE /\ repositoryCommit' = [repositoryCommit EXCEPT ![p] = HeadAfterErr(ans)]
                  /\ tags' = [tags EXCEPT ![p] = CandidateTags(HeadAfterErr(ans))]
                  /\ IF newGithubClient(env[p]) # ""
                     THEN /\ Return(p, Err(newGithubClient(env[p])))
                          /\ UNCHANGED idx
                     ELSE /\ pc' = [pc EXCEPT ![p] = "loop"]
                          /\ idx' = [idx EXCEPT ![p] = 1]
                          /\ UNCHANGED ret
  /\ UNCHANGED <<exit, active, args, env, track, commitName, stdout, rt>>

\* ------------------------------------------------------------------------
\* push: the comparison loop
\* ------------------------------------------------------------------------
\* the loop with the return after the identical notice missing
CompareVerdictIdenticalContinues(ans) ==
  IF ans.err # NoErr
  THEN IF IsResponseErrorNotFound(ans.err)
       THEN [do |-> "continue", notice |-> "", ret |-> Running]
       ELSE [do |-> "return", notice |-> "", ret |-> Err(ans.err)]
  ELSE IF ans.status = CompareCommitsStatusIdentical
       THEN [do |-> "continue", notice |-> NoticeIdentical, ret |-> Running]
  ELSE IF ans.status = CompareCommitsStatusBehind
       THEN [do |-> "return", notice |-> NoticeBehind, ret |-> Ok]
  ELSE IF ans.status = CompareCommitsStatusDiverged
       THEN [do |-> "continue", notice |-> NoticeDiverged, ret |-> Running]
  ELSE IF ans.status = CompareCommitsStatusAhead
       THEN [do |-> "continue", notice |-> "", ret |-> Running]
  ELSE [do |-> "return", notice |-> "", ret |-> Err(ErrUnexpectedStatus)]

\* the loop with the return after the behind notice missing
CompareVerdictBehindContinues(ans) ==
  IF ans.err # NoErr
  THEN IF IsResponseErrorNotFound(ans.err)
       THEN [do |-> "continue", notice |-> "", ret |-> Running]
       ELSE [do |-> "return", notice |-> "", ret |-> Err(ans.err)]
  ELSE IF ans.status = CompareCommitsStatusIdentical
       THEN [do |-> "return", notice |-> NoticeIdentical, ret |-> Ok]
  ELSE IF ans.status = CompareCommitsStatusBehind
       THEN [do |-> "continue", notice |-> NoticeBehind, ret |-> Running]
  ELSE IF ans.status = CompareCommitsStatusDiverged
       THEN [do |-> "continue", notice |-> NoticeDiverged, ret |-> Running]
  ELSE IF ans.status = CompareCommitsStatusAhead
       THEN [do |-> "continue", notice |-> "", ret |-> Running]
  ELSE [do |-> "return", notice |-> "", ret |-> Err(ErrUnexpectedStatus)]

\* the loop with a notice for a candidate the current git commit is ahead of
CompareVerdictAheadNotices(ans) ==
  IF ans.err # NoErr
  THEN IF IsResponseErrorNotFound(ans.err)
       THEN [do |-> "continue", notice |-> "", ret |-> Running]
       ELSE [do |-> "return", notice |-> "", ret |-> Err(ans.err)]
  ELSE IF ans.status = CompareCommitsStatusIdentical
       THEN [do |-> "return", notice |-> NoticeIdentical, ret |-> Ok]
  ELSE IF ans.status = CompareCommitsStatusBehind
       THEN [do |-> "return", notice |-> NoticeBehind, ret |-> Ok]
  ELSE IF ans.status = CompareCommitsStatusDiverged
       THEN [do |-> "continue", notice |-> NoticeDiverged, ret |-> Running]
  ELSE IF ans.status = CompareCommitsStatusAhead
       THEN [do |-> "continue", notice |-> NoticeDiverged, ret |-> Running]
  ELSE [do |-> "return", notice |-> "", ret |-> Err(ErrUnexpectedStatus)]

\* the loop that returns the 404 of a comparison like every other error
CompareVerdictNotFoundReturns(ans) ==
  IF ans.err # NoErr
  THEN [do |-> "return", notice |-> "", ret |-> Err(ans.err)]
  ELSE IF ans.status = CompareCommitsStatusIdentical
       THEN [do |-> "return", notice |-> NoticeIdentical, ret |-> Ok]
  ELSE IF ans.status = CompareCommitsStatusBehind
       THEN [do |-> "return", notice |-> NoticeBehind, ret |-> Ok]
  ELSE IF ans.status = CompareCommitsStatusDiverged
       THEN [do |-> "continue", notice |-> NoticeDiverged, ret |-> Running]
  ELSE IF ans.status = CompareCommitsStatusAhead
       THEN [do |-> "continue", notice |-> "", ret |-> Running]
  ELSE [do |-> "return", notice |-> "", ret |-> Err(ErrUnexpectedStatus)]

\* the loop that skips a candidate on every error of the comparison
CompareVerdictErrorsContinue(ans) ==
  IF ans.err # NoErr
  THEN [do |-> "continue", notice |-> "", ret |-> Running]
  ELSE IF ans.status = CompareCommitsStatusIdentical
       THEN [do |-> "return", notice |-> NoticeIdentical, ret |-> Ok]
  ELSE IF ans.status = CompareCommitsStatusBehind
       THEN [do |-> "return", notice |-> NoticeBehind, ret |-> Ok]
  ELSE IF ans.status = CompareCommitsStatusDiverged
       THEN [do |-> "continue", notice |-> NoticeDiverged, ret |-> Running]
  ELSE IF ans.status = CompareCommitsStatusAhead
       THEN [do |-> "continue", notice |-> "", ret |-> Running]
  ELSE [do |-> "return", notice |-> "", ret |-> Err(ErrUnexpectedStatus)]

\* the loop with a return after the diverged notice
CompareVerdictDivergedReturns(ans) ==
  IF ans.err # NoErr
  THEN IF IsResponseErrorNotFound(ans.err)
       THEN [do |-> "continue", notice |-> "", ret |-> Running]
       ELSE [do |-> "return", notice |-> "", ret |-> Err(ans.err)]
  ELSE IF ans.status = CompareCommitsStatusIdentical
       THEN [do |-> "return", notice |-> NoticeIdentical, ret |-> Ok]
  ELSE IF ans.status = CompareCommitsStatusBehind
       THEN [do |-> "return", notice |-> NoticeBehind, ret |-> Ok]
  ELSE IF ans.status = CompareCommitsStatusDiverged
       THEN [do |-> "return", notice |-> NoticeDiverged, ret |-> Ok]
  ELSE IF ans.status = CompareCommitsStatusAhead
       THEN [do |-> "continue", notice |-> "", ret |-> Running]
  ELSE [do |-> "return", notice |-> "", ret |-> Err(ErrUnexpectedStatus)]

\* what one iteration of the loop does with the answer of CompareCommits:
\* "continue" goes on to the next tag, "return" ends push
CompareVerdict(ans) ==
  IF ans.err # NoErr
  THEN IF IsResponseErrorNotFound(ans.err)
       THEN [do |-> "continue", notice |-> "", ret |-> Running]
       ELSE [do |-> "return", notice |-> "", ret |-> Err(ans.err)]
  ELSE IF ans.status = CompareCommitsStatusIdentical
       THEN [do |-> "return", notice |-> NoticeIdentical, ret |-> Ok]
  ELSE IF ans.status = CompareCommitsStatusBehind
       THEN [do |-> "return", notice |-> NoticeBehind, ret |-> Ok]
  ELSE IF ans.status = CompareCommitsStatusDiverged
       THEN [do |-> "continue", notice |-> NoticeDiverged, ret |-> Running]
  ELSE IF ans.status = CompareCommitsStatusAhead
       THEN [do |-> "continue", notice |-> "", ret |-> Running]
  ELSE [do |-> "return", notice |-> "", ret |-> Err(ErrUnexpectedStatus)]

\* one iteration of "for _, tag := range tags"
Compare(p, ans) ==
  /\ p \in active /\ pc[p] = "loop" /\ idx[p] <= Len(tags[p])
  /\ calls' = Append(calls,
         Call(p, "CompareCommits", <<tags[p][idx[p]], args[p].currentGitCommit>>, ans))
  /\ LET v == CompareVerdict(ans) IN
       /\ stdout' = IF v.notice = "" THEN stdout
                    ELSE [stdout EXCEPT ![p] = Append(@, Notice(v.notice, track[p]))]
       /\ IF v.do = "return"
          THEN /\ Return(p, v.ret)
               /\ UNCHANGED idx
          ELSE /\ idx' = [idx EXCEPT ![p] = @ + 1]
               /\ UNCHANGED <<pc, ret>>
  /\ UNCHANGED <<exit, active, args, env, track, repositoryCommit, tags, commitName, rt>>

\* ------------------------------------------------------------------------
\* push: the push itself and tagExistingCommit
\* ------------------------------------------------------------------------
PushAnswers == [commit : BsrCommitPool, err : PushErrs]

\* AlreadyExists of Push returned like every other error
TagsExistingNever(head, e) == FALSE

\* the AlreadyExists branch without the test for a missing head
TagsExistingWithoutHead(head, e) == e = RpcAlreadyExists

\* the head tagged after every error of Push
TagsExistingAnyError(head, e) == ~head.nil

\* after push failed with AlreadyExists: go on to tag the head, or give up
TagsExisting(head, e) == e = RpcAlreadyExists /\ ~head.nil

\* the commit name taken from the answer of Push in every case
ReportedCommitFromPin(head, ans) == ans.commit

\* the name of the head reported after every push
ReportedCommitHeadAlways(head, ans) == head.name

\* the commit name push reports
ReportedCommit(head, ans) == IF ans.err # NoErr THEN head.name ELSE ans.commit

\* Push called again after its answer
PushCallsRetried(p, ans) ==
  <<Call(p, "NewPushService", <<>>, NoErr),
    Call(p, "Push", <<<<args[p].currentGitCommit>>, <<track[p]>>>>, ans),
    Call(p, "Push", <<<<args[p].currentGitCommit>>, <<track[p]>>>>, ans)>>

\* the push service called with the track input instead of the resolved track
PushCallsRequestedTrack(p, ans) ==
  <<Call(p, "NewPushService", <<>>, NoErr),
    Call(p, "Push", <<<<args[p].currentGitCommit>>, <<args[p].track>>>>, ans)>>

\* the calls push makes on the push service
PushCalls(p, ans) ==
  <<Call(p, "NewPushService", <<>>, NoErr),
    Call(p, "Push", <<<<args[p].currentGitCommit>>, <<track[p]>>>>, ans)>>

\* push, from NewPushService to the call of tagExistingCommit or the outputs
Push(p, svcErr, ans) ==
  /\ p \in active /\ pc[p] = "loop" /\ idx[p] > Len(tags[p])
  /\ IF svcErr
     THEN /\ calls' = Append(calls, Call(p, "NewPushService", <<>>, RpcOther))
          /\ Return(p, Err(ErrNewService))
          /\ UNCHANGED <<commitName, stdout>>
     ELSE IF ans.err # NoErr /\ ~TagsExisting(repositoryCommit[p], ans.err)
     THEN /\ calls' = calls \o PushCalls(p, ans)
          /\ Return(p, Err(ans.err))
          /\ UNCHANGED <<commitName, stdout>>
     ELSE IF ans.err # NoErr
     THEN /\ commitName' = [commitName EXCEPT ![p] = ReportedCommit(repositoryCommit[p], ans)]
          /\ calls' = calls \o PushCalls(p, ans) \o
                 <<Call(p, "tagExistingCommit",
                        <<args[p].currentGitCommit,
                          ReportedCommit(repositoryCommit[p], ans)>>, NoErr)>>
          /\ pc' = [pc EXCEPT ![p] = "tagRepository"]
          /\ UNCHANGED <<ret, stdout>>
     ELSE /\ commitName' = [commitName EXCEPT ![p] = ReportedCommit(repositoryCommit[p], ans)]
          /\ calls' = calls \o PushCalls(p, ans)
          /\ stdout' = [stdout EXCEPT ![p] =
                 @ \o SuccessOutputs(ReportedCommit(repositoryCommit[p], ans))]
          /\ Return(p, Ok)
  /\ UNCHANGED <<exit, active, args, env, track, repositoryCommit, tags, idx, rt>>

\* tagExistingCommit, NewRepositoryService and GetRepositoryByFullName
TagGetRepository(p, svcErr, e) ==
  /\ p \in active /\ pc[p] = "tagRepository"
  /\ IF svcErr
     THEN /\ calls' = Append(calls, Call(p, "NewRepositoryService", <<>>, RpcOther))
          /\ Return(p, Err(ErrNewService))
     ELSE /\ calls' = calls \o
                 <<Call(p, "NewRepositoryService", <<>>, NoErr),
                   Call(p, "GetRepositoryByFullName", <<>>, e)>>
          /\ IF e = RpcNotFound THEN Return(p, Err(ErrRepositoryMissing))
             ELSE IF e # NoErr THEN Return(p, Err(e))
             ELSE /\ pc' = [pc EXCEPT ![p] = "tagCreate"]
                  /\ UNCHANGED ret
  /\ UNCHANGED <<exit, active, args, env, track, repositoryCommit, tags, idx, commitName,
                 stdout, rt>>

\* the error of CreateRepositoryTag returned as it is
CreateTagErrorVerbatim(e) == e

\* the error tagExistingCommit makes of the error of CreateRepositoryTag
CreateTagError(e) ==
  IF e = RpcNotFound THEN ErrReferenceMissing
  ELSE IF e = RpcAlreadyExists THEN ErrTagExists
  ELSE e

\* tagExistingCommit, NewRepositoryTagService and CreateRepositoryTag, then
\* the outputs of push
TagCreate(p, svcErr, e) ==
  /\ p \in active /\ pc[p] = "tagCreate"
  /\ IF svcErr
     THEN /\ calls' = Append(calls, Call(p, "NewRepositoryTagService", <<>>, RpcOther))
          /\ Return(p, Err(ErrNewService))
          /\ UNCHANGED stdout
     ELSE /\ calls' = calls \o
                 <<Call(p, "NewRepositoryTagService", <<>>, NoErr),
                   Call(p, "CreateRepositoryTag",
                        <<args[p].currentGitCommit, commitName[p]>>, e)>>
          /\ IF e # NoErr
             THEN /\ Return(p, Err(CreateTagError(e)))
                  /\ UNCHANGED stdout
             ELSE /\ stdout' = [stdout EXCEPT ![p] = @ \o SuccessOutputs(commitName[p])]
                  /\ Return(p, Ok)
  /\ UNCHANGED <<exit, active, args, env, track, repositoryCommit, tags, idx, commitName, rt>>

\* ------------------------------------------------------------------------
\* One invocation of push against scripted collaborators
\* ------------------------------------------------------------------------
NoArgs ==
  [input |-> "", track |-> "", defaultBranch |-> "", refName |-> "",
   currentGitCommit |-> <<>>]

\* a github repository without commits
NoGithub == [known |-> {}, rel |-> "diverged"]

NoRt == [track |-> "", defaultBranch |-> "", refName |-> "", applied |-> FALSE,
         method |-> "", function |-> ""]

Init ==
  /\ active = {1}
  /\ \E a \in ArgsPool : args = [p \in Procs |-> IF p = 1 THEN a ELSE NoArgs]
  /\ \E e \in EnvPool : env = [p \in Procs |-> IF p = 1 THEN e ELSE DefaultEnv]
  /\ pc = [p \in Procs |-> IF p \in active THEN "start" ELSE "absent"]
  /\ track = [p \in Procs |-> ""]
  /\ repositoryCommit = [p \in Procs |-> NoCommit]
  /\ tags = [p \in Procs |-> <<>>]
  /\ idx = [p \in Procs |-> 0]
  /\ commitName = [p \in Procs |-> ""]
  /\ ret = [p \in Procs |-> Running]
  /\ stdout = [p \in Procs |-> <<>>]
  /\ calls = <<>>
  /\ rt = NoRt
  /\ registry = <<>>
  /\ github = NoGithub
  /\ exit = [p \in Procs |-> NoExit]

\* the position guards stand in front of the choice of the answers
Next ==
  /\ UNCHANGED <<registry, github>>
  /\ \E p \in active :
    \/ Setup(p)
    \/ pc[p] = "getHead" /\ \E svcErr \in BOOLEAN, ans \in HeadAnswers :
         GetTrackHead(p, svcErr, ans)
    \/ pc[p] = "loop" /\ \E ans \in CompareAnswers : Compare(p, ans)
    \/ pc[p] = "loop" /\ \E svcErr \in BOOLEAN, ans \in PushAnswers : Push(p, svcErr, ans)
    \/ pc[p] = "tagRepository" /\ \E svcErr \in BOOLEAN, e \in RepositoryErrs :
         TagGetRepository(p, svcErr, e)
    \/ pc[p] = "tagCreate" /\ \E svcErr \in BOOLEAN, e \in CreateTagErrs :
         TagCreate(p, svcErr, e)

Spec == Init /\ [][Next]_vars

\* ------------------------------------------------------------------------
\* The resolvers on their own: every (track, defaultBranch, refName) of
\* StrPool is put through commonArgs.resolveTrack and resolveTrack
\* ------------------------------------------------------------------------
StrPool == {"", testMainTrack, testNonMainTrack, "develop", "master"}

InitResolve ==
  /\ active = {}
  /\ args = [p \in Procs |-> NoArgs]
  /\ env = [p \in Procs |-> DefaultEnv]
  /\ pc = [p \in Procs |-> "absent"]
  /\ track = [p \in Procs |-> ""]
  /\ repositoryCommit = [p \in Procs |-> NoCommit]
  /\ tags = [p \in Procs |-> <<>>]
  /\ idx = [p \in Procs |-> 0]
  /\ commitName = [p \in Procs |-> ""]
  /\ ret = [p \in Procs |-> Running]
  /\ stdout = [p \in Procs |-> <<>>]
  /\ calls = <<>>
  /\ registry = <<>>
  /\ github = NoGithub
  /\ exit = [p \in Procs |-> NoExit]
  /\ \E t \in StrPool, d \in StrPool, r \in StrPool :
       rt = [NoRt EXCEPT !.track = t, !.defaultBranch = d, !.refName = r]

ApplyResolve ==
  /\ ~rt.applied
  /\ rt' = [rt EXCEPT !.applied = TRUE,
                      !.method = commonArgs_resolveTrack(rt),
                      !.function = resolveTrack(rt.track, rt.defaultBranch, rt.refName)]
  /\ UNCHANGED <<exit, active, args, env, pc, track, repositoryCommit, tags, idx,
                 commitName, ret, stdout, calls, registry, github>>

NextResolve == ApplyResolve

SpecResolve == InitResolve /\ [][NextResolve]_vars

\* ------------------------------------------------------------------------
\* Invocations of push against one registry and one git history.  The registry
\* answers from the commits it holds: GetRepositoryCommitByReference returns
\* the newest commit of the track (NotFound: "the track doesn't exist yet"),
\* Push refuses content that the head of the track already has ("The latest
\* commit has the same content; not creating a new commit.") and appends a
\* commit otherwise, CreateRepositoryTag refuses a tag name that another
\* commit owns ("already exists with different content").  A tag
\* name has one owner: a Push with a tag name that a commit owns either takes
\* the name over or is refused, as the registry chooses.  The github client
\* answers from one git history.
\* ------------------------------------------------------------------------
\* a second module directory, with other content than testInput
otherInput == "./testdata/other"

\* the names the registry gives to its commits, in the order of their creation
CommitNames == <<"c0", "c1", "c2">>

InSeq(x, s) == \E k \in 1..Len(s) : s[k] = x

\* the commits of track t, as positions in reg
RegistryTrackIdx(reg, t) == {i \in 1..Len(reg) : reg[i].track = t}

\* the position of the head of track t, 0 when the track has no commit
RegistryHeadIdx(reg, t) ==
  IF RegistryTrackIdx(reg, t) = {} THEN 0
  ELSE CHOOSE i \in RegistryTrackIdx(reg, t) : \A j \in RegistryTrackIdx(reg, t) : j <= i

\* RepositoryCommitService.GetRepositoryCommitByReference(owner, repository, track)
Registry_GetRepositoryCommitByReference(reg, t) ==
  IF RegistryHeadIdx(reg, t) = 0
  THEN [commit |-> [name |-> "", tags |-> <<>>, nil |-> FALSE], err |-> RpcNotFound]
  ELSE [commit |-> [name |-> CommitNames[RegistryHeadIdx(reg, t)],
                    tags |-> reg[RegistryHeadIdx(reg, t)].tags, nil |-> FALSE],
        err |-> NoErr]

\* a commit of reg owns one of tagNames
TagOwned(reg, tagNames) ==
  \E j \in 1..Len(reg), k \in 1..Len(tagNames) : InSeq(tagNames[k], reg[j].tags)

\* PushService.Push(owner, repository, "", module, tags, tracks): the answer
Registry_Push(reg, content, tagNames, t, moveTags) ==
  IF RegistryHeadIdx(reg, t) # 0 /\ reg[RegistryHeadIdx(reg, t)].content = content
  THEN [commit |-> CommitNames[RegistryHeadIdx(reg, t)], err |-> RpcAlreadyExists]
  ELSE IF TagOwned(reg, tagNames) /\ ~moveTags
  THEN [commit |-> "", err |-> RpcOther]
  ELSE [commit |-> CommitNames[Len(reg) + 1], err |-> NoErr]

\* the registry after that Push
RegistryAfterPush(reg, content, tagNames, t, moveTags) ==
  IF Registry_Push(reg, content, tagNames, t, moveTags).err = NoErr
  THEN Append([i \in 1..Len(reg) |->
                 [reg[i] EXCEPT !.tags = SelectSeq(@, LAMBDA x : ~InSeq(x, tagNames))]],
              [content |-> content, tags |-> tagNames, track |-> t])
  ELSE reg

\* the position of the commit named ref, 0 when there is none
RegistryCommitIdx(reg, ref) ==
  IF \E i \in 1..Len(reg) : CommitNames[i] = ref
  THEN CHOOSE i \in 1..Len(reg) : CommitNames[i] = ref
  ELSE 0

\* RepositoryTagService.CreateRepositoryTag(repositoryID, name, commitName): the error
Registry_CreateRepositoryTag(reg, tagName, ref) ==
  IF RegistryCommitIdx(reg, ref) = 0 THEN RpcNotFound
  ELSE IF \E j \in 1..Len(reg) : j # RegistryCommitIdx(reg, ref) /\ InSeq(tagName, reg[j].tags)
  THEN RpcAlreadyExists
  ELSE NoErr

\* the registry after that CreateRepositoryTag
RegistryAfterTag(reg, tagName, ref) ==
  IF Registry_CreateRepositoryTag(reg, tagName, ref) = NoErr
       /\ ~InSeq(tagName, reg[RegistryCommitIdx(reg, ref)].tags)
  THEN [reg EXCEPT ![RegistryCommitIdx(reg, ref)].tags = Append(@, tagName)]
  ELSE reg

\* the git commits of the history: known to github or not, and how the two
\* are related
GitShas == {testGitCommit1, testGitCommit2}
GitHistories == [known : SUBSET GitShas, rel : {"diverged", "1<2", "2<1"}]

\* a is an ancestor of b
Ancestor(gh, a, b) ==
  \/ gh.rel = "1<2" /\ a = testGitCommit1 /\ b = testGitCommit2
  \/ gh.rel = "2<1" /\ a = testGitCommit2 /\ b = testGitCommit1

\* Client.CompareCommits(ctx, base, head) on the history gh
Github_CompareCommits(gh, base, head) ==
  IF base \notin gh.known \/ head \notin gh.known
  THEN [status |-> 0, err |-> GhNotFound]
  ELSE IF base = head THEN [status |-> CompareCommitsStatusIdentical, err |-> NoErr]
  ELSE IF Ancestor(gh, base, head) THEN [status |-> CompareCommitsStatusAhead, err |-> NoErr]
  ELSE IF Ancestor(gh, head, base) THEN [status |-> CompareCommitsStatusBehind, err |-> NoErr]
  ELSE [status |-> CompareCommitsStatusDiverged, err |-> NoErr]

\* every invocation pushing the module of the first
ModuleOfFirst(p) == args[1].input

\* the module that invocation p pushes
ModuleOf(p) == args[p].input

RegistryArgsPool ==
  [input : {testInput, otherInput}, track : {testNonMainTrack},
   defaultBranch : {testMainTrack}, refName : {testMainTrack},
   currentGitCommit : GitShas]

\* the track is new, or has one commit of either content
InitialRegistries ==
  {<<>>} \cup
  {<<[content |-> c, tags |-> tl, track |-> testNonMainTrack]>> :
     c \in {testInput, otherInput}, tl \in {<<>>, <<testGitCommit1>>}}

InitRegistry ==
  /\ active = Procs
  /\ args \in [Procs -> RegistryArgsPool]
  /\ env = [p \in Procs |-> DefaultEnv]
  /\ pc = [p \in Procs |-> "start"]
  /\ track = [p \in Procs |-> ""]
  /\ repositoryCommit = [p \in Procs |-> NoCommit]
  /\ tags = [p \in Procs |-> <<>>]
  /\ idx = [p \in Procs |-> 0]
  /\ commitName = [p \in Procs |-> ""]
  /\ ret = [p \in Procs |-> Running]
  /\ stdout = [p \in Procs |-> <<>>]
  /\ calls = <<>>
  /\ rt = NoRt
  /\ registry \in InitialRegistries
  /\ github \in GitHistories
  /\ exit = [p \in Procs |-> NoExit]

RegistrySetup(p) == Setup(p) /\ UNCHANGED <<registry, github>>

RegistryGetTrackHead(p) ==
  /\ pc[p] = "getHead"
  /\ GetTrackHead(p, FALSE, Registry_GetRepositoryCommitByReference(registry, track[p]))
  /\ UNCHANGED <<registry, github>>

RegistryCompare(p) ==
  /\ pc[p] = "loop" /\ idx[p] <= Len(tags[p])
  /\ Compare(p, Github_CompareCommits(github, tags[p][idx[p]], args[p].currentGitCommit))
  /\ UNCHANGED <<registry, github>>

RegistryPush(p, moveTags) ==
  /\ pc[p] = "loop" /\ idx[p] > Len(tags[p])
  /\ Push(p, FALSE,
          Registry_Push(registry, ModuleOf(p), <<args[p].currentGitCommit>>, track[p], moveTags))
  /\ registry' = RegistryAfterPush(registry, ModuleOf(p), <<args[p].currentGitCommit>>,
                                   track[p], moveTags)
  /\ UNCHANGED github

RegistryTagGetRepository(p) ==
  /\ pc[p] = "tagRepository"
  /\ TagGetRepository(p, FALSE, NoErr)
  /\ UNCHANGED <<registry, github>>

RegistryTagCreate(p) ==
  /\ pc[p] = "tagCreate"
  /\ TagCreate(p, FALSE,
               Registry_CreateRepositoryTag(registry, args[p].currentGitCommit, commitName[p]))
  /\ registry' = RegistryAfterTag(registry, args[p].currentGitCommit, commitName[p])
  /\ UNCHANGED github

NextRegistry ==
  \E p \in active :
    \/ RegistrySetup(p)
    \/ RegistryGetTrackHead(p)
    \/ RegistryCompare(p)
    \/ \E moveTags \in BOOLEAN : RegistryPush(p, moveTags)
    \/ RegistryTagGetRepository(p)
    \/ RegistryTagCreate(p)

SpecRegistry == InitRegistry /\ [][NextRegistry]_vars

\* ------------------------------------------------------------------------
\* deleteTrack.  Two versions are in the repository: the one of deletetrack.go
\* reads its inputs itself and resolves the track with resolveTrack, the one
\* built on commonSetup resolves it with commonArgs.resolveTrack.
\* ------------------------------------------------------------------------
githubRefTypeBranch == "branch"
noIdentityInput == "./testdata/no_name"

ErrTrackNotProvided == "track not provided"
ErrDefaultBranchNotProvided == "default_branch not provided"
ErrModuleIdentity == "module identity not found in config"
ErrBucket == "NewReadWriteBucket or GetConfigForBucket failed"
\* bufcli.NewModuleReferenceNotFoundError(moduleReference)
ErrModuleReferenceNotFound == "%s does not exist"
\* fmt.Errorf("%s:%s does not exist", moduleIdentity.IdentityString(), track)
ErrTrackMissing == "%s:%s does not exist"

NoticeMainTrack == "Skipping because the main track can not be deleted from BSR"
NoticeRefType == "Skipping because %q events are not supported with %q references"

\* writeNotice of a text without a track in it
NoticeLine(text) == [kind |-> "notice", name |-> text, value |-> <<>>]

DeleteErrs == {NoErr, RpcNotFound, RpcOther}

\* the track either version of deleteTrack goes on with
DeleteResolveTrack(a) ==
  IF a.version = "commonSetup" THEN commonArgs_resolveTrack(a)
  ELSE resolveTrack(a.track, a.defaultBranch, a.refName)

\* the main track is deleted like every other track
IsProtectedTrackNever(t) == FALSE

\* the test "track == main" in front of the registry
IsProtectedTrack(t) == t = testMainTrack

\* what deleteTrack of deletetrack.go does before it turns to the registry:
\* "skip" with a notice, "fail" with an error, or "delete" the track
deleteTrackLocal(a) ==
  IF a.refType # githubRefTypeBranch
  THEN [do |-> "skip", notice |-> NoticeRefType, err |-> ""]
  ELSE IF a.input = missingInput THEN [do |-> "fail", notice |-> "", err |-> ErrBucket]
  ELSE IF a.input = noIdentityInput THEN [do |-> "fail", notice |-> "", err |-> ErrModuleIdentity]
  ELSE IF a.track = "" THEN [do |-> "fail", notice |-> "", err |-> ErrTrackNotProvided]
  ELSE IF a.defaultBranch = ""
  THEN [do |-> "fail", notice |-> "", err |-> ErrDefaultBranchNotProvided]
  ELSE IF IsProtectedTrack(resolveTrack(a.track, a.defaultBranch, a.refName))
  THEN [do |-> "skip", notice |-> NoticeMainTrack, err |-> ""]
  ELSE [do |-> "delete", notice |-> "", err |-> ""]

\* the same for deleteTrack on commonSetup
deleteTrackCommon(e, a) ==
  IF commonSetup(e, a) # "" THEN [do |-> "fail", notice |-> "", err |-> commonSetup(e, a)]
  ELSE IF IsProtectedTrack(commonArgs_resolveTrack(a))
  THEN [do |-> "skip", notice |-> NoticeMainTrack, err |-> ""]
  ELSE [do |-> "delete", notice |-> "", err |-> ""]

deleteTrackVerdict(e, a) ==
  IF a.version = "commonSetup" THEN deleteTrackCommon(e, a) ELSE deleteTrackLocal(a)

\* deleteTrack, from its entry to NewRepositoryTrackService
DeleteSetup(p) ==
  /\ p \in active /\ pc[p] = "deleteStart"
  /\ LET v == deleteTrackVerdict(env[p], args[p]) IN
       /\ track' = [track EXCEPT ![p] =
                      IF v.do = "fail" \/ v.notice = NoticeRefType THEN @
                      ELSE DeleteResolveTrack(args[p])]
       /\ stdout' = IF v.do = "skip"
                    THEN [stdout EXCEPT ![p] = Append(@, NoticeLine(v.notice))]
                    ELSE stdout
       /\ IF v.do = "skip" THEN Return(p, Ok)
          ELSE IF v.do = "fail" THEN Return(p, Err(v.err))
          ELSE /\ pc' = [pc EXCEPT ![p] = "deleteCall"]
               /\ UNCHANGED ret
  /\ UNCHANGED <<exit, active, args, env, repositoryCommit, tags, idx, commitName, calls,
                 rt, registry, github>>

\* NotFound of DeleteRepositoryTrackByName passed on as it is
DeleteTrackErrorVerbatim(a, e) == e

\* the error deleteTrack makes of the error of DeleteRepositoryTrackByName
DeleteTrackError(a, e) ==
  IF e = RpcNotFound
  THEN IF a.version = "commonSetup" THEN ErrTrackMissing ELSE ErrModuleReferenceNotFound
  ELSE e

\* deleteTrack, NewRepositoryTrackService and DeleteRepositoryTrackByName
DeleteRepositoryTrackByName(p, svcErr, e) ==
  /\ p \in active /\ pc[p] = "deleteCall"
  /\ IF svcErr
     THEN /\ calls' = Append(calls, Call(p, "NewRepositoryTrackService", <<>>, RpcOther))
          /\ Return(p, Err(ErrNewService))
     ELSE /\ calls' = calls \o
                 <<Call(p, "NewRepositoryTrackService", <<>>, NoErr),
                   Call(p, "DeleteRepositoryTrackByName", <<track[p]>>, e)>>
          /\ IF e # NoErr THEN Return(p, Err(DeleteTrackError(args[p], e)))
             ELSE Return(p, Ok)
  /\ UNCHANGED <<exit, active, args, env, track, repositoryCommit, tags, idx, commitName,
                 stdout, rt, registry, github>>

DeleteArgsPool ==
  [input : {testInput, emptyModuleInput, missingInput, noIdentityInput},
   track : NamePool, defaultBranch : NamePool, refName : NamePool,
   currentGitCommit : {<<>>},
   refType : {githubRefTypeBranch, "tag"},
   version : {"deletetrack.go", "commonSetup"}]

InitDelete ==
  /\ active = {1}
  /\ \E a \in DeleteArgsPool : args = [p \in Procs |-> a]
  /\ \E e \in {DefaultEnv, [DefaultEnv EXCEPT !.bufToken = ""]} : env = [p \in Procs |-> e]
  /\ pc = [p \in Procs |-> IF p \in active THEN "deleteStart" ELSE "absent"]
  /\ track = [p \in Procs |-> ""]
  /\ repositoryCommit = [p \in Procs |-> NoCommit]
  /\ tags = [p \in Procs |-> <<>>]
  /\ idx = [p \in Procs |-> 0]
  /\ commitName = [p \in Procs |-> ""]
  /\ ret = [p \in Procs |-> Running]
  /\ stdout = [p \in Procs |-> <<>>]
  /\ calls = <<>>
  /\ rt = NoRt
  /\ registry = <<>>
  /\ github = NoGithub
  /\ exit = [p \in Procs |-> NoExit]

NextDelete ==
  \E p \in active :
    \/ DeleteSetup(p)
    \/ pc[p] = "deleteCall" /\ \E svcErr \in BOOLEAN, e \in DeleteErrs :
         DeleteRepositoryTrackByName(p, svcErr, e)

SpecDelete == InitDelete /\ [][NextDelete]_vars

\* ------------------------------------------------------------------------
\* push with github.Client as the githubClient: the answers of the hosting
\* API are scripted, and Client.CompareCommits makes a status of them
\* ------------------------------------------------------------------------
\* the status strings of a comparison: the four the client knows, one it does
\* not know, and the one of an answer without status
ApiStatusPool == {"diverged", "identical", "ahead", "behind", "unknown", ""}

\* answers of c.client.Repositories.CompareCommits
ApiAnswers ==
  [status : ApiStatusPool, err : {NoErr}] \cup [status : {""}, err : {GhNotFound, GhOther}]

stringsToCompareCommitStatus ==
  [s \in {"diverged", "identical", "ahead", "behind"} |->
     CASE s = "diverged" -> CompareCommitsStatusDiverged
       [] s = "identical" -> CompareCommitsStatusIdentical
       [] s = "ahead" -> CompareCommitsStatusAhead
       [] s = "behind" -> CompareCommitsStatusBehind]

ErrUnknownCompareCommitsStatus == "unknown CompareCommitsStatus: %s"

\* the map read without its ok result: the zero status and no error
Client_CompareCommitsUnchecked(api) ==
  IF api.err # NoErr THEN [status |-> 0, err |-> api.err]
  ELSE IF api.status \in DOMAIN stringsToCompareCommitStatus
       THEN [status |-> stringsToCompareCommitStatus[api.status], err |-> NoErr]
  ELSE [status |-> 0, err |-> NoErr]

\* Client.CompareCommits, from the answer of the API to (status, error)
Client_CompareCommits(api) ==
  IF api.err # NoErr THEN [status |-> 0, err |-> api.err]
  ELSE IF api.status \in DOMAIN stringsToCompareCommitStatus
       THEN [status |-> stringsToCompareCommitStatus[api.status], err |-> NoErr]
  ELSE [status |-> 0, err |-> ErrUnknownCompareCommitsStatus]

\* one iteration of the loop with github.Client: the request to the API, and
\* what push makes of the client's answer
ClientCompare(p, api) ==
  /\ p \in active /\ pc[p] = "loop" /\ idx[p] <= Len(tags[p])
  /\ LET ans == Client_CompareCommits(api)
         v == CompareVerdict(ans) IN
       /\ calls' = calls \o
            <<Call(p, "Repositories.CompareCommits",
                   <<tags[p][idx[p]], args[p].currentGitCommit>>, api),
              Call(p, "CompareCommits",
                   <<tags[p][idx[p]], args[p].currentGitCommit>>, ans)>>
       /\ stdout' = IF v.notice = "" THEN stdout
                    ELSE [stdout EXCEPT ![p] = Append(@, Notice(v.notice, track[p]))]
       /\ IF v.do = "return"
          THEN /\ Return(p, v.ret)
               /\ UNCHANGED idx
          ELSE /\ idx' = [idx EXCEPT ![p] = @ + 1]
               /\ UNCHANGED <<pc, ret>>
  /\ UNCHANGED <<exit, active, args, env, track, repositoryCommit, tags, commitName, rt>>

\* runs on a module that can be read, on the default branch and on another
ClientArgsPool ==
  {a \in ArgsPool : /\ a.input = testInput /\ a.currentGitCommit = testGitCommit2
                    /\ a.track # "" /\ a.defaultBranch = testMainTrack
                    /\ a.refName = a.track}

InitClient ==
  /\ active = {1}
  /\ \E a \in ClientArgsPool : args = [p \in Procs |-> IF p = 1 THEN a ELSE NoArgs]
  /\ env = [p \in Procs |-> DefaultEnv]
  /\ pc = [p \in Procs |-> IF p \in active THEN "start" ELSE "absent"]
  /\ track = [p \in Procs |-> ""]
  /\ repositoryCommit = [p \in Procs |-> NoCommit]
  /\ tags = [p \in Procs |-> <<>>]
  /\ idx = [p \in Procs |-> 0]
  /\ commitName = [p \in Procs |-> ""]
  /\ ret = [p \in Procs |-> Running]
  /\ stdout = [p \in Procs |-> <<>>]
  /\ calls = <<>>
  /\ rt = NoRt
  /\ registry = <<>>
  /\ github = NoGithub
  /\ exit = [p \in Procs |-> NoExit]

\* the githubClient of a run is the fake of the tests or github.Client
NextClient ==
  /\ UNCHANGED <<registry, github>>
  /\ \E p \in active :
    \/ Setup(p)
    \/ pc[p] = "getHead" /\ \E svcErr \in BOOLEAN, ans \in HeadAnswers :
         GetTrackHead(p, svcErr, ans)
    \/ pc[p] = "loop" /\ \E ans \in CompareAnswers : Compare(p, ans)
    \/ pc[p] = "loop" /\ \E api \in ApiAnswers : ClientCompare(p, api)
    \/ pc[p] = "loop" /\ \E svcErr \in BOOLEAN, ans \in PushAnswers : Push(p, svcErr, ans)
    \/ pc[p] = "tagRepository" /\ \E svcErr \in BOOLEAN, e \in RepositoryErrs :
         TagGetRepository(p, svcErr, e)
    \/ pc[p] = "tagCreate" /\ \E svcErr \in BOOLEAN, e \in CreateTagErrs :
         TagCreate(p, svcErr, e)

SpecClient == InitClient /\ [][NextClient]_vars

\* ------------------------------------------------------------------------
\* The subcommands behind interceptErrorForGithubAction: push or delete-track
\* returns, the interceptor wraps the error, appcmd.Run writes it to stderr
\* ------------------------------------------------------------------------
errorPrefix == "::error::"

\* the error of the subcommand handed on as it is
interceptErrorUnwrapped(r) == IF r.state # "error" THEN <<>> ELSE <<r.msg>>

\* interceptErrorForGithubAction: nil for nil, "::error::" + the error
\* otherwise; an error is the sequence of the parts of its text, nil is <<>>
interceptErrorForGithubAction(r) ==
  IF r.state # "error" THEN <<>> ELSE <<errorPrefix, r.msg>>

\* the subcommand of p has returned and the process ends
Intercept(p) ==
  /\ p \in active /\ pc[p] = "done" /\ ~exit[p].exited
  /\ LET err == interceptErrorForGithubAction(ret[p]) IN
       exit' = [exit EXCEPT ![p] =
                  [exited |-> TRUE, err |-> err,
                   stderr |-> IF err = <<>> THEN <<>> ELSE <<err>>,
                   code |-> IF err = <<>> THEN 0 ELSE 1]]
  /\ UNCHANGED <<active, args, env, pc, track, repositoryCommit, tags, idx, commitName,
                 ret, stdout, calls, rt, registry, github>>

\* one process, started with the subcommand push or delete-track
InitCommands == Init \/ InitDelete

NextCommands ==
  \/ Next
  \/ NextDelete
  \/ \E p \in active : Intercept(p)

SpecCommands == InitCommands /\ [][NextCommands]_vars

\* ------------------------------------------------------------------------
\* github.IsResponseError on its own: every status code of StatusCodes
\* against every error of ErrorPool
\* ------------------------------------------------------------------------
\* how many times an error is wrapped (fmt.Errorf with %w) at most
MaxWrap == 2

\* http status codes; 0 is the zero value of http.Response.StatusCode
StatusCodes == {0, 400, 404, 500}

NoResponse == [nil |-> TRUE, StatusCode |-> 0]

\* errors: nil, or an error of kind "other" or "ErrorResponse" (a
\* *github.ErrorResponse with its Response field) below a number of wrappers
NilError == [kind |-> "nil", wraps |-> 0, Response |-> NoResponse]

ErrorPool ==
  {NilError} \cup
  [kind : {"other"}, wraps : 0..MaxWrap, Response : {NoResponse}] \cup
  [kind : {"ErrorResponse"}, wraps : 0..MaxWrap,
   Response : {NoResponse} \cup [nil : {FALSE}, StatusCode : StatusCodes]]

\* errors.As(err, &errorResponse): a *github.ErrorResponse is in the chain
ErrorsAsErrorResponse(err) == err.kind = "ErrorResponse"

\* the comparison with the status code without the test for a nil Response
IsResponseErrorNoNilTest(statusCode, err) ==
  IF ~ErrorsAsErrorResponse(err) THEN FALSE
  ELSE err.Response.StatusCode = statusCode

\* func IsResponseError(statusCode int, err error) bool
IsResponseError(statusCode, err) ==
  IF ~ErrorsAsErrorResponse(err) THEN FALSE
  ELSE IF err.Response.nil THEN FALSE
  ELSE err.Response.StatusCode = statusCode

InitIsResponseError ==
  /\ active = {}
  /\ args = [p \in Procs |-> NoArgs]
  /\ env = [p \in Procs |-> DefaultEnv]
  /\ pc = [p \in Procs |-> "absent"]
  /\ track = [p \in Procs |-> ""]
  /\ repositoryCommit = [p \in Procs |-> NoCommit]
  /\ tags = [p \in Procs |-> <<>>]
  /\ idx = [p \in Procs |-> 0]
  /\ commitName = [p \in Procs |-> ""]
  /\ ret = [p \in Procs |-> Running]
  /\ stdout = [p \in Procs |-> <<>>]
  /\ calls = <<>>
  /\ registry = <<>>
  /\ github = NoGithub
  /\ exit = [p \in Procs |-> NoExit]
  /\ \E c \in StatusCodes, e \in ErrorPool :
       rt = [statusCode |-> c, err |-> e, applied |-> FALSE, result |-> FALSE]

ApplyIsResponseError ==
  /\ ~rt.applied
  /\ rt' = [rt EXCEPT !.applied = TRUE, !.result = IsResponseError(rt.statusCode, rt.err)]
  /\ UNCHANGED <<exit, active, args, env, pc, track, repositoryCommit, tags, idx,
                 commitName, ret, stdout, calls, registry, github>>

NextIsResponseError == ApplyIsResponseError

SpecIsResponseError == InitIsResponseError /\ [][NextIsResponseError]_vars

\* ------------------------------------------------------------------------
\* Reading the history of a run
\* ------------------------------------------------------------------------
\* the positions in calls of the calls of p on op
CallIdx(p, op) == {i \in 1..Len(calls) : calls[i].proc = p /\ calls[i].op = op}

CallsOf(p, op) == SelectSeq(calls, LAMBDA c : c.proc = p /\ c.op = op)

Outputs(p) == SelectSeq(stdout[p], LAMBDA l : l.kind = "set-output")

Notices(p) == SelectSeq(stdout[p], LAMBDA l : l.kind = "notice")

\* the answer of CompareCommits was the status st, without error
Answered(c, st) == c.res.err = NoErr /\ c.res.status = st

\* p made no call after position i
LastCallOf(p, i) == \A j \in (i + 1)..Len(calls) : calls[j].proc # p

\* RegistryClient.push was entered: the push service was asked for
PushAttempted(p) == CallIdx(p, "NewPushService") # {}

\* ------------------------------------------------------------------------
\* Claims
\* ------------------------------------------------------------------------

\* C1: once a comparison of a candidate tag has answered Identical, the run
\* is over and has returned success with the "already the head" notice as its
\* last line: that comparison is the last call of the run, so there is no
\* push, no tagExistingCommit and no comparison of a later candidate, and no
\* output is set.
C1_IdenticalEndsRun ==
  \A p \in active : \A i \in CallIdx(p, "CompareCommits") :
    Answered(calls[i], CompareCommitsStatusIdentical) =>
      /\ LastCallOf(p, i)
      /\ ~PushAttempted(p) /\ CallIdx(p, "Push") = {}
      /\ Cardinality(CallIdx(p, "CompareCommits")) <= Len(tags[p])
      /\ pc[p] = "done" /\ ret[p] = Ok
      /\ Outputs(p) = <<>>
      /\ stdout[p] # <<>>
      /\ stdout[p][Len(stdout[p])] = Notice(NoticeIdentical, track[p])

\* the first of at least two candidates answered Identical
C1_Witness ==
  \E p \in active :
    /\ Len(tags[p]) >= 2
    /\ Len(CallsOf(p, "CompareCommits")) = 1
    /\ Answered(CallsOf(p, "CompareCommits")[1], CompareCommitsStatusIdentical)
    /\ pc[p] = "done"

\* C2: once a comparison of a candidate tag has answered Behind, the run has
\* returned success at once: that comparison is its last call (no push, no
\* tagExistingCommit, no further comparison), the "behind the head" notice is
\* its last line and no output is set.
C2_BehindEndsRun ==
  \A p \in active : \A i \in CallIdx(p, "CompareCommits") :
    Answered(calls[i], CompareCommitsStatusBehind) =>
      /\ LastCallOf(p, i)
      /\ ~PushAttempted(p) /\ CallIdx(p, "Push") = {}
      /\ CallIdx(p, "tagExistingCommit") = {}
      /\ pc[p] = "done" /\ ret[p] = Ok
      /\ Outputs(p) = <<>>
      /\ stdout[p] # <<>>
      /\ stdout[p][Len(stdout[p])] = Notice(NoticeBehind, track[p])

\* a candidate answered Behind while another candidate was still to come
C2_Witness ==
  \E p \in active : \E i \in CallIdx(p, "CompareCommits") :
    /\ Answered(calls[i], CompareCommitsStatusBehind)
    /\ Cardinality(CallIdx(p, "CompareCommits")) < Len(tags[p])
    /\ pc[p] = "done"

\* every comparison of p so far answered Diverged, Ahead or a 404
AllContinue(p) ==
  \A i \in CallIdx(p, "CompareCommits") :
    \/ Answered(calls[i], CompareCommitsStatusDiverged)
    \/ Answered(calls[i], CompareCommitsStatusAhead)
    \/ calls[i].res.err = GhNotFound

\* a comparison of p answered Diverged and a later one Ahead
DivergedThenAhead(p) ==
  \E i, j \in CallIdx(p, "CompareCommits") :
    /\ i < j
    /\ Answered(calls[i], CompareCommitsStatusDiverged)
    /\ Answered(calls[j], CompareCommitsStatusAhead)

\* C3: Diverged does not end the run: a comparison that answered Diverged
\* leaves a notice and is never the last call of a finished run.  When the
\* candidates answered Diverged
\* and later Ahead, and none of them Identical, Behind, an unknown status or
\* an error other than a 404, then after the loop the push service is asked
\* for exactly once and, when it is there, Push is called exactly once, with
\* every candidate compared before.
C3_DivergedThenAheadPushes ==
  \A p \in active :
    /\ \A i \in CallIdx(p, "CompareCommits") :
         Answered(calls[i], CompareCommitsStatusDiverged) =>
           /\ pc[p] = "done" => ~LastCallOf(p, i)
           /\ \E k \in 1..Len(stdout[p]) : stdout[p][k] = Notice(NoticeDiverged, track[p])
    /\ (DivergedThenAhead(p) /\ AllContinue(p) /\ ~(pc[p] = "loop" /\ idx[p] <= Len(tags[p]))) =>
      /\ Cardinality(CallIdx(p, "CompareCommits")) = Len(tags[p])
      /\ pc[p] # "loop" =>
           /\ Cardinality(CallIdx(p, "NewPushService")) = 1
           /\ Cardinality(CallIdx(p, "Push")) <= 1
           /\ CallsOf(p, "NewPushService")[1].res = NoErr =>
                Cardinality(CallIdx(p, "Push")) = 1
           /\ \A i \in CallIdx(p, "CompareCommits"), j \in CallIdx(p, "NewPushService") : i < j

\* Diverged, then Ahead, then a push that succeeded
C3_Witness ==
  \E p \in active :
    /\ DivergedThenAhead(p) /\ AllContinue(p)
    /\ Len(CallsOf(p, "Push")) = 1
    /\ CallsOf(p, "Push")[1].res.err = NoErr
    /\ ret[p] = Ok

\* a string of exactly 40 hexadecimal digits of either case
IsHex40(s) ==
  /\ Len(s) = 40
  /\ \A i \in 1..Len(s) :
       s[i] \in {"0", "1", "2", "3", "4", "5", "6", "7", "8", "9",
                 "a", "b", "c", "d", "e", "f", "A", "B", "C", "D", "E", "F"}

PushAlreadyExists(p) ==
  \E i \in CallIdx(p, "Push") : calls[i].res.err = RpcAlreadyExists

\* C5: when Push answers AlreadyExists and GetRepositoryCommitByReference had
\* returned a head, tagExistingCommit is called exactly once, with the current
\* git commit as tag name and the name of that head as reference;
\* CreateRepositoryTag is called with the same two values, at most once, and
\* exactly once when the repository and the tag service were found.  When it
\* succeeds, the run succeeds and both outputs carry the name of the head,
\* whatever commit the answer of Push named.
C5_AlreadyExistsTagsHead ==
  \A p \in active :
    (PushAlreadyExists(p) /\ ~repositoryCommit[p].nil) =>
      /\ Len(CallsOf(p, "tagExistingCommit")) = 1
      /\ CallsOf(p, "tagExistingCommit")[1].args =
           <<args[p].currentGitCommit, repositoryCommit[p].name>>
      /\ Len(CallsOf(p, "CreateRepositoryTag")) <= 1
      /\ \A i \in CallIdx(p, "CreateRepositoryTag") :
           /\ calls[i].args = <<args[p].currentGitCommit, repositoryCommit[p].name>>
           /\ calls[i].res = NoErr =>
                /\ pc[p] = "done" /\ ret[p] = Ok
                /\ Outputs(p) =
                     <<Output("commit", <<repositoryCommit[p].name>>),
                       Output("commit_url",
                              <<"https://", testModuleName, "/tree/", repositoryCommit[p].name>>)>>
           /\ calls[i].res # NoErr => Outputs(p) = <<>>
      /\ (\E i \in CallIdx(p, "GetRepositoryByFullName") : calls[i].res = NoErr)
           /\ (\E i \in CallIdx(p, "NewRepositoryTagService") : calls[i].res = NoErr)
           => Len(CallsOf(p, "CreateRepositoryTag")) = 1

\* Push answered AlreadyExists and named another commit than the head; the
\* head was tagged and reported
C5_Witness ==
  \E p \in active :
    /\ ~repositoryCommit[p].nil
    /\ \E i \in CallIdx(p, "Push") :
         calls[i].res.err = RpcAlreadyExists /\ calls[i].res.commit # repositoryCommit[p].name
    /\ \E i \in CallIdx(p, "CreateRepositoryTag") : calls[i].res = NoErr
    /\ ret[p] = Ok /\ Len(Outputs(p)) = 2

\* C6: when Push answers AlreadyExists and GetRepositoryCommitByReference had
\* found no head (NotFound or FailedPrecondition), that AlreadyExists error is
\* what the run returns: the Push is its last call, tagExistingCommit is not
\* called and no output is set.
C6_AlreadyExistsWithoutHead ==
  \A p \in active : \A i \in CallIdx(p, "Push") :
    (calls[i].res.err = RpcAlreadyExists /\ repositoryCommit[p].nil) =>
      /\ pc[p] = "done" /\ ret[p] = Err(RpcAlreadyExists)
      /\ LastCallOf(p, i)
      /\ CallIdx(p, "tagExistingCommit") = {}
      /\ CallIdx(p, "CreateRepositoryTag") = {}
      /\ Outputs(p) = <<>>
      /\ \E j \in CallIdx(p, "GetRepositoryCommitByReference") :
           calls[j].res \in {RpcNotFound, RpcFailedPrecondition}

\* the head answered FailedPrecondition, the push AlreadyExists
C6_Witness ==
  \E p \in active :
    /\ \E j \in CallIdx(p, "GetRepositoryCommitByReference") :
         calls[j].res = RpcFailedPrecondition
    /\ PushAlreadyExists(p)
    /\ pc[p] = "done"

\* the environment from which newGithubClient makes a client
GithubClientEnv(e) ==
  /\ e.githubAPIURL # ":foo"
  /\ e.githubToken # ""
  /\ Cardinality({i \in 1..Len(e.githubRepository) : e.githubRepository[i] = "/"}) = 1

PushedToMain(p) ==
  \E i \in CallIdx(p, "Push") : calls[i].args[2] = <<"main">>

\* C8 as stated: whenever Push is called with tracks = ["main"], the ref name
\* is the default branch
C8_Original ==
  \A p \in active : PushedToMain(p) => args[p].refName = args[p].defaultBranch

\* C8 (amended): whenever Push is called with tracks = ["main"], the ref name
\* is the default branch, or the track was overridden: "main" was requested
\* from a ref that is not named main.  A requested track that is the ref name
\* only reaches the main track from the default branch.
C8_MainFromDefaultBranchOrOverride ==
  \A p \in active :
    PushedToMain(p) =>
      /\ \/ args[p].refName = args[p].defaultBranch
         \/ args[p].track = "main" /\ args[p].refName # "main"
      /\ args[p].track = args[p].refName => args[p].refName = args[p].defaultBranch

\* a default branch that is not named main was pushed to the main track
C8_Witness ==
  \E p \in active :
    /\ PushedToMain(p)
    /\ args[p].track # "main"
    /\ args[p].track = args[p].defaultBranch /\ args[p].track = args[p].refName

\* the inputs of p other than track, default branch and ref name are there
OtherInputsGiven(p) ==
  /\ env[p].bufToken # "" /\ env[p].config = "ok"
  /\ args[p].input = testInput
  /\ args[p].currentGitCommit # <<>>

\* C9: a push with requested track "main", ref name "main" and a default
\* branch other than "main" fails without any call on the registry or the
\* github client and without any line written; with the other inputs in
\* place the error is "cannot push to main track from a non-default branch".
C9_CrossBranchMainFails ==
  \A p \in active :
    (/\ args[p].track = "main" /\ args[p].refName = "main"
     /\ args[p].defaultBranch # "main"
     /\ pc[p] # "start") =>
      /\ pc[p] = "done" /\ ret[p].state = "error"
      /\ \A i \in 1..Len(calls) : calls[i].proc # p
      /\ stdout[p] = <<>>
      /\ OtherInputsGiven(p) /\ args[p].defaultBranch # "" =>
           ret[p] = Err("cannot push to main track from a non-default branch")

\* such a push, with every other input in place, has failed
C9_Witness ==
  \E p \in active :
    /\ args[p].track = "main" /\ args[p].refName = "main"
    /\ args[p].defaultBranch = testNonMainTrack
    /\ OtherInputsGiven(p)
    /\ pc[p] = "done"

\* the three equations of the claim for a result res of (t, d, r)
ResolvesMainOnRef(t, d, r, res) == (t = d /\ r = t) => res = "main"
ResolvesMainOnEmptyRef(t, d, r, res) == (t = d /\ r = "") => res = "main"
ResolvesUnchanged(t, d, r, res) == (t # d \/ (r # t /\ r # "")) => res = t

Outcome(p) ==
  IF pc[p] # "done" THEN "running"
  ELSE IF ret[p].state = "error" THEN "error"
  ELSE IF \E i \in CallIdx(p, "CreateRepositoryTag") : calls[i].res = NoErr
       THEN "tagged-existing"
  ELSE IF \E i \in CallIdx(p, "Push") : calls[i].res.err = NoErr THEN "pushed-new"
  ELSE IF \E i \in CallIdx(p, "CompareCommits") :
            Answered(calls[i], CompareCommitsStatusIdentical)
       THEN "skipped-identical"
  ELSE "skipped-behind"

\* the run of p was over before q made its first call
RanBefore(p, q) ==
  /\ pc[p] = "done"
  /\ \A i, j \in 1..Len(calls) : (calls[i].proc = p /\ calls[j].proc = q) => i < j

\* C11: a run of push that starts after a run with the same arguments and
\* environment has pushed a new commit or tagged the existing head, with no
\* other writer on the registry and the same git history, never ends in an
\* error: it ends with the head tagged or skips because the current git commit
\* is already the head (the registry and the github client answer every call).
C11_RerunIdempotent ==
  \A p, q \in active :
    (/\ p # q
     /\ args[p] = args[q] /\ env[p] = env[q]
     /\ Outcome(p) \in {"pushed-new", "tagged-existing"}
     /\ RanBefore(p, q)
     /\ pc[q] = "done") =>
      Outcome(q) \in {"tagged-existing", "skipped-identical"}

\* a rerun that tagged the head again, and a rerun that skipped
C11_Witness ==
  \E p, q \in active :
    /\ p # q /\ args[p] = args[q] /\ RanBefore(p, q)
    /\ Outcome(p) = "pushed-new"
    /\ Outcome(q) = "tagged-existing"

\* the Push of q was answered before the Push of p
PushedBefore(q, p) ==
  \E i \in CallIdx(q, "Push"), j \in CallIdx(p, "Push") : i < j

\* C12: of two invocations of push for the same track with the same module
\* content, the one whose Push arrives second and is answered AlreadyExists
\* ends with the existing commit tagged, not in an error, in every
\* interleaving of their steps.
C12_SecondPushTagsExisting ==
  \A p, q \in active :
    (/\ p # q
     /\ track[p] = track[q] /\ ModuleOf(p) = ModuleOf(q)
     /\ PushedBefore(q, p)
     /\ \E i \in CallIdx(q, "Push") : calls[i].res.err = NoErr
     /\ PushAlreadyExists(p)
     /\ pc[p] = "done") =>
      Outcome(p) = "tagged-existing"

\* the content of the commit named ref
ContentOf(ref) == registry[RegistryCommitIdx(registry, ref)].content

\* C13: whenever tagExistingCommit has tagged a commit (the head fetched
\* before the push) with the current git commit, that commit has the content
\* of the module that was pushed, in every interleaving with other
\* invocations that write to the same track.
C13_TaggedCommitHasPushedContent ==
  \A p \in active : \A i \in CallIdx(p, "CreateRepositoryTag") :
    calls[i].res = NoErr =>
      /\ RegistryCommitIdx(registry, calls[i].args[2]) # 0
      /\ ContentOf(calls[i].args[2]) = ModuleOf(p)

\* ------------------------------------------------------------------------
\* deleteTrack
\* ------------------------------------------------------------------------
\* the effective track of the request of p, by the resolver its version uses
EffectiveTrack(p) == DeleteResolveTrack(args[p])

\* the inputs deleteTrack reads before it resolves the track are in place
DeleteInputsGiven(p) ==
  /\ args[p].track # "" /\ args[p].defaultBranch # ""
  /\ args[p].input \in {testInput, emptyModuleInput}
  /\ IF args[p].version = "commonSetup"
     THEN env[p].bufToken # "" /\ env[p].config = "ok" /\ args[p].refName # ""
     ELSE args[p].refType = githubRefTypeBranch

\* C14: deleteTrack never calls DeleteRepositoryTrackByName for the main
\* track.  Whenever the effective track resolved from the requested track,
\* the default branch and the ref name is "main" (a requested track that is a
\* default branch not named main and the ref name included), it makes no call
\* on the registry at all and, its inputs being in place, writes the notice
\* that the main track can not be deleted as its only line and returns
\* success.
C14_MainTrackNeverDeleted ==
  \A p \in active :
    /\ \A i \in CallIdx(p, "DeleteRepositoryTrackByName") : calls[i].args # <<"main">>
    /\ (EffectiveTrack(p) = "main" /\ pc[p] # "deleteStart") =>
         /\ pc[p] = "done"
         /\ \A i \in 1..Len(calls) : calls[i].proc # p
         /\ DeleteInputsGiven(p) =>
              /\ ret[p] = Ok
              /\ stdout[p] = <<NoticeLine(NoticeMainTrack)>>

\* a default branch not named main was asked to be deleted from its own ref
C14_Witness ==
  \E p \in active :
    /\ args[p].track = testNonMainTrack /\ args[p].defaultBranch = testNonMainTrack
    /\ args[p].refName = testNonMainTrack
    /\ DeleteInputsGiven(p)
    /\ pc[p] = "done" /\ ret[p] = Ok

\* the "does not exist" error of the version of deleteTrack that p runs
DoesNotExistError(p) ==
  IF args[p].version = "commonSetup"
  THEN "%s:%s does not exist" ELSE "%s does not exist"

\* C15: for an effective track other than "main", with its inputs in place,
\* deleteTrack asks for the track service once and, when it gets it, calls
\* DeleteRepositoryTrackByName exactly once, with the effective track.  A
\* NotFound answer ends the run with the "does not exist" error, any other
\* error is returned as it is, and otherwise the run succeeds without a line
\* written.
C15_DeleteNonMainTrack ==
  \A p \in active :
    (DeleteInputsGiven(p) /\ EffectiveTrack(p) # "main" /\ pc[p] = "done") =>
      /\ Len(CallsOf(p, "NewRepositoryTrackService")) = 1
      /\ stdout[p] = <<>>
      /\ IF CallsOf(p, "NewRepositoryTrackService")[1].res # NoErr
         THEN CallIdx(p, "DeleteRepositoryTrackByName") = {} /\ ret[p].state = "error"
         ELSE /\ Len(CallsOf(p, "DeleteRepositoryTrackByName")) = 1
              /\ LET c == CallsOf(p, "DeleteRepositoryTrackByName")[1] IN
                   /\ c.args = <<EffectiveTrack(p)>>
                   /\ c.res = RpcNotFound => ret[p] = Err(DoesNotExistError(p))
                   /\ c.res = RpcOther => ret[p] = Err(RpcOther)
                   /\ c.res = NoErr => ret[p] = Ok

\* the registry did not know the track
C15_Witness ==
  \E p \in active :
    /\ DeleteInputsGiven(p) /\ EffectiveTrack(p) = testNonMainTrack
    /\ \E i \in CallIdx(p, "DeleteRepositoryTrackByName") : calls[i].res = RpcNotFound
    /\ pc[p] = "done" /\ ret[p].state = "error"

\* ------------------------------------------------------------------------
\* Outputs and notices of push
\* ------------------------------------------------------------------------
\* the commit a finished push ends with: the one Push created, or the head
ResultingCommit(p) ==
  IF Outcome(p) = "pushed-new"
  THEN CallsOf(p, "Push")[1].res.commit
  ELSE repositoryCommit[p].name

\* C16: a push that created a commit or tagged the existing head sets exactly
\* two outputs, as its last two lines: commit, the name of the commit Push
\* returned or of the head that was tagged, and commit_url, which is
\* "https://" + the module identity + "/tree/" + the same commit name.
C16_TwoOutputsSameCommit ==
  \A p \in active :
    Outcome(p) \in {"pushed-new", "tagged-existing"} =>
      /\ Outputs(p) =
           <<[kind |-> "set-output", name |-> "commit", value |-> <<ResultingCommit(p)>>],
             [kind |-> "set-output", name |-> "commit_url",
              value |-> <<"https://", "buf.build/foo/bar", "/tree/", ResultingCommit(p)>>]>>
      /\ Len(stdout[p]) >= 2
      /\ SubSeq(stdout[p], Len(stdout[p]) - 1, Len(stdout[p])) = Outputs(p)
      /\ ret[p] = Ok

\* one run created commit c1, on a track whose head is c0
C16_Witness ==
  \E p \in active :
    /\ Outcome(p) = "pushed-new"
    /\ ~repositoryCommit[p].nil /\ repositoryCommit[p].name = "c0"
    /\ ResultingCommit(p) = "c1"
    /\ Len(Outputs(p)) = 2

\* a comparison of p answered Identical or Behind
SkipAnswered(p) ==
  \E i \in CallIdx(p, "CompareCommits") :
    \/ Answered(calls[i], CompareCommitsStatusIdentical)
    \/ Answered(calls[i], CompareCommitsStatusBehind)

\* C17: a run that skips, because a comparison answered Identical or Behind,
\* returns success, has written a notice as its last line and sets no output.
\* Outputs are only set by runs that returned success after Push created a
\* commit or CreateRepositoryTag tagged the head, and a run that returned
\* success without outputs is a run that skipped.
C17_SkipsSucceedWithoutOutputs ==
  \A p \in active :
    /\ SkipAnswered(p) =>
         /\ pc[p] = "done" /\ ret[p] = Ok
         /\ Outputs(p) = <<>>
         /\ Notices(p) # <<>>
         /\ stdout[p][Len(stdout[p])] \in
              {Notice(NoticeIdentical, track[p]), Notice(NoticeBehind, track[p])}
    /\ Outputs(p) # <<>> =>
         /\ pc[p] = "done" /\ ret[p] = Ok
         /\ \/ \E i \in CallIdx(p, "Push") : calls[i].res.err = NoErr
            \/ \E i \in CallIdx(p, "CreateRepositoryTag") : calls[i].res = NoErr
    /\ (pc[p] = "done" /\ ret[p] = Ok /\ Outputs(p) = <<>>) => SkipAnswered(p)

\* a run skipped as behind after a diverged candidate
C17_Witness ==
  \E p \in active :
    /\ \E i \in CallIdx(p, "CompareCommits") : Answered(calls[i], CompareCommitsStatusBehind)
    /\ \E i \in CallIdx(p, "CompareCommits") : Answered(calls[i], CompareCommitsStatusDiverged)
    /\ pc[p] = "done" /\ ret[p] = Ok /\ Outputs(p) = <<>>

\* the comparisons of p that answered Diverged
DivergedIdx(p) ==
  {i \in CallIdx(p, "CompareCommits") : Answered(calls[i], CompareCommitsStatusDiverged)}

ExpectedConditionOccurred(p) ==
  \/ \E i \in CallIdx(p, "GetRepositoryCommitByReference") : calls[i].res = RpcNotFound
  \/ \E i \in CallIdx(p, "CompareCommits") : calls[i].res.err = GhNotFound
  \/ PushAlreadyExists(p)

\* no call of p was answered with another error than these three, no
\* comparison with an unknown status, and the github client could be made
NoOtherError(p) ==
  /\ GithubClientEnv(env[p])
  /\ \A i \in 1..Len(calls) :
       calls[i].proc = p =>
         IF calls[i].op = "GetRepositoryCommitByReference"
         THEN calls[i].res \in {NoErr, RpcNotFound}
         ELSE IF calls[i].op = "CompareCommits"
         THEN \/ calls[i].res.err = GhNotFound
              \/ calls[i].res.err = NoErr /\ calls[i].res.status \in 1..4
         ELSE IF calls[i].op = "Push"
         THEN calls[i].res.err \in {NoErr, RpcAlreadyExists}
         ELSE calls[i].res = NoErr

\* C19 as stated: a finished run in which one of the three conditions
\* occurred and no other error has returned success.
C19_Original ==
  \A p \in active :
    (pc[p] = "done" /\ ExpectedConditionOccurred(p) /\ NoOtherError(p)) => ret[p] = Ok

\* C19 (amended): a finished run in which one of the three conditions
\* occurred and no other error has returned success, unless Push answered
\* AlreadyExists after GetRepositoryCommitByReference had found no head: that
\* run, and no other, returns the AlreadyExists error.
C19_ExpectedConditions ==
  \A p \in active :
    (pc[p] = "done" /\ ExpectedConditionOccurred(p) /\ NoOtherError(p)) =>
      IF PushAlreadyExists(p) /\ repositoryCommit[p].nil
      THEN ret[p] = Err(RpcAlreadyExists)
      ELSE ret[p] = Ok

\* a candidate was not known to github, Push answered AlreadyExists, the head
\* was tagged
C19_Witness ==
  \E p \in active :
    /\ \E i \in CallIdx(p, "CompareCommits") : calls[i].res.err = GhNotFound
    /\ PushAlreadyExists(p)
    /\ NoOtherError(p)
    /\ pc[p] = "done" /\ ret[p] = Ok

\* the comparisons of p that wrote a notice: Identical, Behind and Diverged
NoticedIdx(p) ==
  {i \in CallIdx(p, "CompareCommits") :
     calls[i].res.err = NoErr /\ calls[i].res.status \in
       {CompareCommitsStatusIdentical, CompareCommitsStatusBehind,
        CompareCommitsStatusDiverged}}

\* every candidate of p was compared and answered with a 404
AllNotFound(p) ==
  /\ Len(tags[p]) >= 1
  /\ Len(CallsOf(p, "CompareCommits")) = Len(tags[p])
  /\ \A i \in CallIdx(p, "CompareCommits") : calls[i].res.err = GhNotFound

\* C20: a comparison answered with a 404 skips its candidate: it writes no
\* notice (the notices are those of the other answers), does not end the run,
\* and the next candidate, if there is one, is compared next.  When every
\* candidate was answered with a 404 nothing is written and the run goes on
\* to the push: the push service is asked for once and, when it is there,
\* Push is called once with the current git commit and the track.
C20_NotFoundSkipsCandidate ==
  \A p \in active :
    /\ Len(Notices(p)) = Cardinality(NoticedIdx(p))
    /\ \A k \in 1..Len(CallsOf(p, "CompareCommits")) :
         /\ CallsOf(p, "CompareCommits")[k].args[1] = tags[p][k]
         /\ CallsOf(p, "CompareCommits")[k].res.err = GhNotFound =>
              /\ pc[p] = "loop" \/ Len(CallsOf(p, "CompareCommits")) > k \/ PushAttempted(p)
              /\ k < Len(tags[p]) =>
                   \/ pc[p] = "loop" /\ idx[p] = k + 1
                   \/ Len(CallsOf(p, "CompareCommits")) > k
    /\ AllNotFound(p) =>
         /\ Notices(p) = <<>>
         /\ \/ pc[p] = "loop" /\ idx[p] = Len(tags[p]) + 1 /\ ret[p] = Running
            \/ /\ Len(CallsOf(p, "NewPushService")) = 1
               /\ Len(CallsOf(p, "Push")) <= 1
               /\ CallsOf(p, "NewPushService")[1].res = NoErr =>
                    /\ Len(CallsOf(p, "Push")) = 1
                    /\ CallsOf(p, "Push")[1].args =
                         <<<<args[p].currentGitCommit>>, <<track[p]>>>>

\* two candidates, both unknown to github, then the push
C20_Witness ==
  \E p \in active :
    /\ Len(tags[p]) = 2 /\ AllNotFound(p)
    /\ \E i \in CallIdx(p, "Push") : calls[i].res.err = NoErr
    /\ ret[p] = Ok /\ Notices(p) = <<>>

\* ------------------------------------------------------------------------
\* Errors of the comparison and of tagExistingCommit
\* ------------------------------------------------------------------------
\* C21: a comparison that fails with an error other than a 404 ends the run
\* with that error: the comparison is the last call of the run, so no later
\* candidate is compared and neither Push nor tagExistingCommit is called, and
\* no output is set.
C21_CompareErrorAborts ==
  \A p \in active : \A i \in CallIdx(p, "CompareCommits") :
    (calls[i].res.err # NoErr /\ calls[i].res.err # GhNotFound) =>
      /\ pc[p] = "done" /\ ret[p] = Err(calls[i].res.err)
      /\ LastCallOf(p, i)
      /\ ~PushAttempted(p) /\ CallIdx(p, "Push") = {}
      /\ CallIdx(p, "tagExistingCommit") = {}
      /\ Outputs(p) = <<>>

\* the first of two candidates failed, after nothing else
C21_Witness ==
  \E p \in active :
    /\ Len(tags[p]) = 2
    /\ Len(CallsOf(p, "CompareCommits")) = 1
    /\ CallsOf(p, "CompareCommits")[1].res.err = GhOther
    /\ pc[p] = "done"

\* C22: a comparison answered without error with a status that is none of
\* Diverged, Identical, Ahead, Behind ends the run with the error "unexpected
\* status", as its last call and with no push and no output; and
\* Client.CompareCommits answers a status string of the API that is none of
\* the four it knows with an error and the zero status, never with a status
\* and no error, and it answers a known string with its status.
C22_UnexpectedStatusFatal ==
  \A p \in active :
    /\ \A i \in CallIdx(p, "CompareCommits") :
         (calls[i].res.err = NoErr /\ calls[i].res.status \notin
            {CompareCommitsStatusAhead, CompareCommitsStatusBehind,
             CompareCommitsStatusIdentical, CompareCommitsStatusDiverged}) =>
           /\ pc[p] = "done" /\ ret[p] = Err(ErrUnexpectedStatus)
           /\ LastCallOf(p, i)
           /\ ~PushAttempted(p) /\ CallIdx(p, "Push") = {}
           /\ Outputs(p) = <<>>
    /\ \A i \in CallIdx(p, "Repositories.CompareCommits") :
         /\ i < Len(calls) /\ calls[i + 1].proc = p /\ calls[i + 1].op = "CompareCommits"
         /\ calls[i].res.err = NoErr =>
              IF calls[i].res.status \in {"diverged", "identical", "ahead", "behind"}
              THEN /\ calls[i + 1].res.err = NoErr
                   /\ calls[i + 1].res.status \in 1..4
                   /\ (calls[i].res.status = "diverged") =
                        (calls[i + 1].res.status = CompareCommitsStatusDiverged)
                   /\ (calls[i].res.status = "identical") =
                        (calls[i + 1].res.status = CompareCommitsStatusIdentical)
                   /\ (calls[i].res.status = "ahead") =
                        (calls[i + 1].res.status = CompareCommitsStatusAhead)
              ELSE /\ calls[i + 1].res.err = ErrUnknownCompareCommitsStatus
                   /\ calls[i + 1].res.status = 0
                   /\ ret[p] = Err(ErrUnknownCompareCommitsStatus)
                   /\ ~PushAttempted(p)

\* after a diverged candidate the githubClient answered the zero status
\* without error, and the run is over
C22_Witness ==
  \E p \in active :
    /\ pc[p] = "done" /\ Len(tags[p]) = 2
    /\ Len(CallsOf(p, "CompareCommits")) = 2
    /\ Answered(CallsOf(p, "CompareCommits")[1], CompareCommitsStatusDiverged)
    /\ Answered(CallsOf(p, "CompareCommits")[2], 0)
    /\ CallIdx(p, "Repositories.CompareCommits") = {}

\* the API answered a string the client does not know, on the second candidate
C22_WitnessClient ==
  \E p \in active : \E i \in CallIdx(p, "Repositories.CompareCommits") :
    /\ calls[i].res.err = NoErr /\ calls[i].res.status = "unknown"
    /\ Len(CallsOf(p, "CompareCommits")) = 2
    /\ pc[p] = "done"

\* the calls of tagExistingCommit that p made and that failed
TagFailureIdx(p) ==
  {i \in 1..Len(calls) :
     /\ calls[i].proc = p
     /\ calls[i].op \in {"NewRepositoryService", "GetRepositoryByFullName",
                         "NewRepositoryTagService", "CreateRepositoryTag"}
     /\ calls[i].res # NoErr}

\* a failure of tagExistingCommit ends the run with an error, without output
TagFailureFatal(p, i) ==
  /\ pc[p] = "done" /\ ret[p] # Ok /\ ret[p] # Running
  /\ LastCallOf(p, i)
  /\ Outputs(p) = <<>>

\* C23 as stated: every failure of tagExistingCommit is fatal and leaves no
\* output; NotFound of the repository lookup gives "a repository named ...
\* does not exist", AlreadyExists of the tag creation gives "... already
\* exists with different content", and every other error is the error of the
\* run as it is.
C23_Original ==
  \A p \in active : \A i \in TagFailureIdx(p) :
    /\ TagFailureFatal(p, i)
    /\ ret[p] =
         IF calls[i].op = "GetRepositoryByFullName" /\ calls[i].res = RpcNotFound
         THEN Err(ErrRepositoryMissing)
         ELSE IF calls[i].op = "CreateRepositoryTag" /\ calls[i].res = RpcAlreadyExists
         THEN Err(ErrTagExists)
         ELSE IF calls[i].op \in {"NewRepositoryService", "NewRepositoryTagService"}
         THEN Err(ErrNewService)
         ELSE Err(calls[i].res)

\* C23: every failure of tagExistingCommit is fatal and leaves no output;
\* NotFound of the repository lookup gives "a repository named ... does not
\* exist", NotFound of the tag creation gives "<module>:<reference> does not
\* exist", AlreadyExists of the tag creation gives "... already exists with
\* different content", and every other error is the error of the run as it is.
C23_TagExistingFailures ==
  \A p \in active : \A i \in TagFailureIdx(p) :
    /\ TagFailureFatal(p, i)
    /\ ret[p] =
         IF calls[i].op = "GetRepositoryByFullName" /\ calls[i].res = RpcNotFound
         THEN Err(ErrRepositoryMissing)
         ELSE IF calls[i].op = "CreateRepositoryTag" /\ calls[i].res = RpcNotFound
         THEN Err(ErrReferenceMissing)
         ELSE IF calls[i].op = "CreateRepositoryTag" /\ calls[i].res = RpcAlreadyExists
         THEN Err(ErrTagExists)
         ELSE IF calls[i].op \in {"NewRepositoryService", "NewRepositoryTagService"}
         THEN Err(ErrNewService)
         ELSE Err(calls[i].res)

\* the tag creation was answered NotFound after Push answered AlreadyExists
C23_Witness ==
  \E p \in active : \E i \in CallIdx(p, "CreateRepositoryTag") :
    /\ calls[i].res = RpcNotFound
    /\ PushAlreadyExists(p)
    /\ CallIdx(p, "tagExistingCommit") # {}
    /\ pc[p] = "done"

\* ------------------------------------------------------------------------
\* The calls of a run: their arguments, their number and their order
\* ------------------------------------------------------------------------
\* C24: every call of Push carries exactly one tag, the current git commit,
\* and exactly one track, the track resolveTrack makes of the inputs, which is
\* the reference GetRepositoryCommitByReference was called with in that run.
C24_PushOneTagOneTrack ==
  \A p \in active : \A i \in CallIdx(p, "Push") :
    /\ calls[i].args[1] = <<args[p].currentGitCommit>>
    /\ Len(calls[i].args[2]) = 1
    /\ calls[i].args[2][1] = commonArgs_resolveTrack(args[p])
    /\ CallIdx(p, "GetRepositoryCommitByReference") # {}
    /\ \A j \in CallIdx(p, "GetRepositoryCommitByReference") :
         j < i /\ calls[j].args = calls[i].args[2]

\* Push was called in a run whose track input is not the track it resolves to
C24_Witness ==
  \E p \in active : \E i \in CallIdx(p, "Push") :
    /\ args[p].track # commonArgs_resolveTrack(args[p])
    /\ calls[i].args[2] = <<testMainTrack>>

\* a required input of p is missing or malformed, or the cross-branch
\* conflict holds
ValidationFails(p) ==
  \/ env[p].bufToken = "" \/ args[p].input = "" \/ args[p].track = ""
  \/ args[p].defaultBranch = "" \/ args[p].refName = ""
  \/ args[p].currentGitCommit = <<>>
  \/ env[p].githubToken = ""
  \/ SplitLen(env[p].githubRepository) # 2
  \/ (args[p].defaultBranch # "main" /\ args[p].track = "main" /\ args[p].refName = "main")

\* the calls of p that go to the registry or to the comparator
RemoteCallIdx(p) ==
  {i \in 1..Len(calls) :
     /\ calls[i].proc = p
     /\ calls[i].op \in {"GetRepositoryCommitByReference", "CompareCommits", "Push",
                         "GetRepositoryByFullName", "CreateRepositoryTag"}}

\* C25: a run with a required input missing or malformed (buf token, input,
\* track, default branch, ref name, current git commit, github token,
\* GITHUB_REPOSITORY) or with the cross-branch conflict fails, and it has
\* called neither the registry nor the comparator.
C25_ValidationBeforeRemote ==
  \A p \in active :
    ValidationFails(p) =>
      /\ RemoteCallIdx(p) = {}
      /\ pc[p] = "done" => ret[p].state = "error"

\* the same for the inputs commonSetup and the head of push validate
C25_SetupValidationBeforeRemote ==
  \A p \in active :
    (ValidationFails(p) /\ pushValidation(env[p], args[p]) # "") =>
      /\ \A i \in 1..Len(calls) : calls[i].proc # p
      /\ pc[p] \in {"start", "done"}
      /\ pc[p] = "done" => ret[p] = Err(pushValidation(env[p], args[p]))

\* the call answered with an error
CallFailed(c) ==
  IF c.op \in {"CompareCommits", "Push"} THEN c.res.err # NoErr ELSE c.res # NoErr

\* the errors push goes on after: no head on the track, a candidate the
\* repository does not know, a push of content the head already has
CallErrorTolerated(p, c) ==
  \/ c.op = "GetRepositoryCommitByReference" /\ c.res \in {RpcNotFound, RpcFailedPrecondition}
  \/ c.op = "CompareCommits" /\ c.res.err = GhNotFound
  \/ c.op = "Push" /\ c.res.err = RpcAlreadyExists /\ ~repositoryCommit[p].nil

\* C26: a run calls GetRepositoryCommitByReference at most once, CompareCommits
\* at most once for each candidate tag, Push at most once and
\* tagExistingCommit (with each of its two remote calls) at most once; and a
\* call answered with an error that push does not go on after is the last
\* call of the run, which has ended with an error.
C26_NoRetries ==
  \A p \in active :
    /\ Cardinality(CallIdx(p, "GetRepositoryCommitByReference")) <= 1
    /\ \A i, j \in CallIdx(p, "CompareCommits") :
         calls[i].args[1] = calls[j].args[1] => i = j
    /\ Cardinality(CallIdx(p, "CompareCommits")) <= Len(tags[p])
    /\ Cardinality(CallIdx(p, "Push")) <= 1
    /\ Cardinality(CallIdx(p, "tagExistingCommit")) <= 1
    /\ Cardinality(CallIdx(p, "GetRepositoryByFullName")) <= 1
    /\ Cardinality(CallIdx(p, "CreateRepositoryTag")) <= 1
    /\ \A i \in 1..Len(calls) :
         (calls[i].proc = p /\ CallFailed(calls[i]) /\ ~CallErrorTolerated(p, calls[i])) =>
           /\ LastCallOf(p, i)
           /\ pc[p] = "done" /\ ret[p].state = "error"

\* a run that made every kind of call, two comparisons among them, and ended
\* on the error of the last one
C26_Witness ==
  \E p \in active :
    /\ Cardinality(CallIdx(p, "GetRepositoryCommitByReference")) = 1
    /\ Cardinality(CallIdx(p, "CompareCommits")) = 2
    /\ Cardinality(CallIdx(p, "Push")) = 1
    /\ Cardinality(CallIdx(p, "tagExistingCommit")) = 1
    /\ \E i \in CallIdx(p, "CreateRepositoryTag") : calls[i].res = RpcOther
    /\ pc[p] = "done" /\ ret[p] = Err(RpcOther)

\* C27: in a run the call of GetRepositoryCommitByReference comes before every
\* comparison and every comparison before the push; tagExistingCommit and its
\* remote calls come only after a Push of the same run that answered
\* AlreadyExists, never after a Push that succeeded and never without a Push.
C27_CallOrder ==
  \A p \in active :
    /\ \A j \in CallIdx(p, "CompareCommits") :
         /\ \E i \in CallIdx(p, "GetRepositoryCommitByReference") : i < j
         /\ \A i \in CallIdx(p, "GetRepositoryCommitByReference") : i < j
    /\ \A k \in CallIdx(p, "NewPushService") \cup CallIdx(p, "Push") :
         /\ \E i \in CallIdx(p, "GetRepositoryCommitByReference") : i < k
         /\ \A j \in CallIdx(p, "CompareCommits") : j < k
    /\ \A t \in CallIdx(p, "tagExistingCommit") \cup CallIdx(p, "NewRepositoryService")
                  \cup CallIdx(p, "GetRepositoryByFullName")
                  \cup CallIdx(p, "NewRepositoryTagService")
                  \cup CallIdx(p, "CreateRepositoryTag") :
         /\ \E k \in CallIdx(p, "Push") : k < t /\ calls[k].res.err = RpcAlreadyExists
         /\ \A k \in CallIdx(p, "Push") : k < t /\ calls[k].res.err = RpcAlreadyExists

\* a run through all of it: the head, two comparisons, Push answered
\* AlreadyExists, the tag created
C27_Witness ==
  \E p \in active :
    /\ Cardinality(CallIdx(p, "CompareCommits")) = 2
    /\ PushAlreadyExists(p)
    /\ \E i \in CallIdx(p, "CreateRepositoryTag") : calls[i].res = NoErr
    /\ pc[p] = "done" /\ ret[p] = Ok

\* the tags of the head of p that are git commits, in the order of the head
ListedCandidates(p) ==
  IF repositoryCommit[p].nil THEN <<>> ELSE SelectSeq(repositoryCommit[p].tags, IsHex40)

\* C28: the k-th comparison of a run has the k-th candidate tag of the head,
\* in the order the head lists its tags, as base and the current git commit as
\* head; a run makes no more comparisons than the head has candidate tags.
C28_ComparedInListedOrder ==
  \A p \in active :
    LET cmp == CallsOf(p, "CompareCommits") IN
      /\ Len(cmp) <= Len(ListedCandidates(p))
      /\ \A k \in 1..Len(cmp) :
           /\ cmp[k].args[1] = ListedCandidates(p)[k]
           /\ cmp[k].args[2] = args[p].currentGitCommit

\* a head with a tag that is no candidate between two that are, both compared
C28_Witness ==
  \E p \in active :
    /\ Len(repositoryCommit[p].tags) = 3
    /\ ~IsHex40(repositoryCommit[p].tags[2])
    /\ Len(CallsOf(p, "CompareCommits")) = 2
    /\ CallsOf(p, "CompareCommits")[1].args[1] = repositoryCommit[p].tags[1]
    /\ CallsOf(p, "CompareCommits")[2].args[1] = repositoryCommit[p].tags[3]

\* the inputs of p were valid and its GetRepositoryCommitByReference did not
\* fail: push stands in the loop of comparisons or is past it
ReachedComparisons(p) ==
  /\ GithubClientEnv(env[p])
  /\ \E i \in CallIdx(p, "GetRepositoryCommitByReference") :
       calls[i].res \in {NoErr, RpcNotFound, RpcFailedPrecondition}

\* every candidate of the head was compared and answered Ahead, Diverged or 404
EveryCandidateContinued(p) ==
  /\ Len(CallsOf(p, "CompareCommits")) = Len(ListedCandidates(p))
  /\ AllContinue(p)

\* a comparison of p answered Diverged and a later one Identical or Behind
DivergedThenSkip(p) ==
  \E i, j \in CallIdx(p, "CompareCommits") :
    /\ i < j
    /\ Answered(calls[i], CompareCommitsStatusDiverged)
    /\ \/ Answered(calls[j], CompareCommitsStatusIdentical)
       \/ Answered(calls[j], CompareCommitsStatusBehind)

\* C29: in a run with valid inputs whose GetRepositoryCommitByReference did
\* not fail, push goes on to the push service exactly when every candidate
\* was compared and answered Ahead, Diverged or 404: the push is entered only
\* then, and a run that has left the loop then has entered it.  A run in which
\* Diverged was followed by Identical or Behind has ended in success without
\* push and without output, the diverged notice written in front of the
\* notice of the skip.
C29_PushIffAllContinue ==
  \A p \in active :
    /\ ReachedComparisons(p) =>
         /\ PushAttempted(p) => EveryCandidateContinued(p)
         /\ (pc[p] # "loop" /\ EveryCandidateContinued(p)) => PushAttempted(p)
         /\ (pc[p] = "loop" /\ idx[p] > Len(tags[p])) => EveryCandidateContinued(p)
    /\ PushAttempted(p) => ReachedComparisons(p)
    /\ DivergedThenSkip(p) =>
         /\ pc[p] = "done" /\ ret[p] = Ok
         /\ ~PushAttempted(p) /\ CallIdx(p, "Push") = {}
         /\ Outputs(p) = <<>>
         /\ Len(Notices(p)) >= 2
         /\ Notices(p)[Len(Notices(p)) - 1] = Notice(NoticeDiverged, track[p])
         /\ Notices(p)[Len(Notices(p))] \in
              {Notice(NoticeIdentical, track[p]), Notice(NoticeBehind, track[p])}

\* Diverged, then Behind: the run is over with two notices and no push
C29_Witness ==
  \E p \in active :
    /\ Len(CallsOf(p, "CompareCommits")) = 2
    /\ Answered(CallsOf(p, "CompareCommits")[1], CompareCommitsStatusDiverged)
    /\ Answered(CallsOf(p, "CompareCommits")[2], CompareCommitsStatusBehind)
    /\ pc[p] = "done" /\ ~PushAttempted(p)
    /\ Len(Notices(p)) = 2

\* every candidate answered Diverged or a 404, and the push was made
C29_WitnessPush ==
  \E p \in active :
    /\ Len(CallsOf(p, "CompareCommits")) = 2
    /\ Answered(CallsOf(p, "CompareCommits")[1], CompareCommitsStatusDiverged)
    /\ CallsOf(p, "CompareCommits")[2].res.err = GhNotFound
    /\ CallIdx(p, "Push") # {}

\* ------------------------------------------------------------------------
\* Two invocations at once
\* ------------------------------------------------------------------------
\* p and q push to the same track, both have read its head before either of
\* them called Push, and both have called Push
RacedToPush(p, q) ==
  /\ p # q /\ track[p] = track[q]
  /\ CallIdx(p, "Push") # {} /\ CallIdx(q, "Push") # {}
  /\ \A i \in CallIdx(p, "GetRepositoryCommitByReference")
              \cup CallIdx(q, "GetRepositoryCommitByReference") :
       \A k \in CallIdx(p, "Push") \cup CallIdx(q, "Push") : i < k

\* C30: nothing keeps two invocations that read the head of the same track
\* before either pushed from both pushing.  When they do and their modules
\* differ, no comparison of either has answered Identical or Behind; after a
\* first Push that made a commit the second is never answered AlreadyExists;
\* and when both are answered without error the track has two new commits,
\* the module of the first below the module of the second, which is its head.
C30_RacingPushesBothCommit ==
  \A p, q \in active :
    (/\ RacedToPush(p, q) /\ PushedBefore(p, q)
     /\ args[p].input # args[q].input) =>
      /\ AllContinue(p) /\ AllContinue(q)
      /\ (\A k \in CallIdx(p, "Push") : calls[k].res.err = NoErr) =>
           \A k \in CallIdx(q, "Push") : calls[k].res.err # RpcAlreadyExists
      /\ (\A k \in CallIdx(p, "Push") \cup CallIdx(q, "Push") : calls[k].res.err = NoErr) =>
           /\ Len(registry) >= 2
           /\ registry[Len(registry) - 1].content = args[p].input
           /\ registry[Len(registry)].content = args[q].input
           /\ registry[Len(registry) - 1].track = track[p]
           /\ registry[Len(registry)].track = track[p]
           /\ RegistryHeadIdx(registry, track[p]) = Len(registry)
           /\ \E k \in CallIdx(p, "Push"), l \in CallIdx(q, "Push") :
                calls[k].res.commit # calls[l].res.commit

\* both read the same head, both compared its tag without Identical or
\* Behind, both pushed, and the track has a commit of each
C30_Witness ==
  \E p, q \in active :
    /\ RacedToPush(p, q) /\ PushedBefore(p, q)
    /\ args[p].input # args[q].input
    /\ ~repositoryCommit[p].nil /\ repositoryCommit[p] = repositoryCommit[q]
    /\ CallIdx(p, "CompareCommits") # {} /\ CallIdx(q, "CompareCommits") # {}
    /\ AllContinue(p) /\ AllContinue(q)
    /\ \A k \in CallIdx(p, "Push") \cup CallIdx(q, "Push") : calls[k].res.err = NoErr
    /\ Len(registry) = 3
    /\ registry[2].content = args[p].input /\ registry[3].content = args[q].input

\* ------------------------------------------------------------------------
\* The reported commit, errors of Push, termination
\* ------------------------------------------------------------------------
\* no other invocation ran while p did, and none has run since: each other
\* invocation was over before the first call of p or has made no call yet
RanAlone(p) ==
  \A q \in active \ {p} :
    \/ RanBefore(q, p)
    \/ \A i \in 1..Len(calls) : calls[i].proc # q

\* the value of the commit output of p
CommitOutput(p) ==
  LET o == SelectSeq(Outputs(p), LAMBDA l : l.name = "commit") IN o[1].value[1]

\* C31: with one run of push at a time, a run that ended with a new commit or
\* with the head tagged has set a commit output that names a commit of the
\* registry, and that commit carries the current git commit of the run as a
\* tag.
C31_ReportedCommitCarriesTag ==
  \A p \in active :
    (Outcome(p) \in {"pushed-new", "tagged-existing"} /\ RanAlone(p)) =>
      /\ SelectSeq(Outputs(p), LAMBDA l : l.name = "commit") # <<>>
      /\ RegistryCommitIdx(registry, CommitOutput(p)) # 0
      /\ InSeq(args[p].currentGitCommit,
               registry[RegistryCommitIdx(registry, CommitOutput(p))].tags)

\* a run that pushed, then a run for another git commit that tagged the head
C31_Witness ==
  \E p, q \in active :
    /\ p # q /\ RanBefore(q, p) /\ RanAlone(p)
    /\ Outcome(q) = "pushed-new" /\ Outcome(p) = "tagged-existing"
    /\ args[p].currentGitCommit # args[q].currentGitCommit
    /\ InSeq(args[p].currentGitCommit,
             registry[RegistryCommitIdx(registry, CommitOutput(p))].tags)

\* C32: a Push answered with an error other than AlreadyExists ends the run
\* with that error, as its last call: tagExistingCommit is not called and no
\* output is set, whether GetRepositoryCommitByReference had returned a head,
\* NotFound or FailedPrecondition.
C32_PushErrorPropagated ==
  \A p \in active : \A i \in CallIdx(p, "Push") :
    (calls[i].res.err # NoErr /\ calls[i].res.err # RpcAlreadyExists) =>
      /\ pc[p] = "done" /\ ret[p] = Err(calls[i].res.err)
      /\ LastCallOf(p, i)
      /\ CallIdx(p, "tagExistingCommit") = {}
      /\ CallIdx(p, "GetRepositoryByFullName") = {}
      /\ CallIdx(p, "CreateRepositoryTag") = {}
      /\ Outputs(p) = <<>>

\* Push failed after GetRepositoryCommitByReference answered FailedPrecondition
C32_Witness ==
  \E p \in active : \E i \in CallIdx(p, "Push") :
    /\ calls[i].res.err = RpcOther
    /\ \E j \in CallIdx(p, "GetRepositoryCommitByReference") :
         calls[j].res = RpcFailedPrecondition
    /\ pc[p] = "done"

\* Push failed in a run that had fetched a head and compared its tag
C32_WitnessHead ==
  \E p \in active : \E i \in CallIdx(p, "Push") :
    /\ calls[i].res.err = RpcOther
    /\ ~repositoryCommit[p].nil
    /\ CallIdx(p, "CompareCommits") # {}
    /\ pc[p] = "done"

\* push is sequential code: a run that can take a step takes it
SpecLive == Init /\ [][Next]_vars /\ WF_vars(Next)

\* the terminal results that describe how the run of p ended
TerminalResults(p) ==
  LET cmp == CallsOf(p, "CompareCommits") IN
  {r \in {"skipped-identical", "skipped-behind", "pushed-new", "tagged-existing", "error"} :
     CASE r = "error" -> ret[p].state = "error"
       [] r = "skipped-identical" ->
            /\ ret[p] = Ok /\ ~PushAttempted(p) /\ cmp # <<>>
            /\ Answered(cmp[Len(cmp)], CompareCommitsStatusIdentical)
       [] r = "skipped-behind" ->
            /\ ret[p] = Ok /\ ~PushAttempted(p) /\ cmp # <<>>
            /\ Answered(cmp[Len(cmp)], CompareCommitsStatusBehind)
       [] r = "pushed-new" ->
            /\ ret[p] = Ok
            /\ \E i \in CallIdx(p, "Push") : calls[i].res.err = NoErr
       [] r = "tagged-existing" ->
            /\ ret[p] = Ok
            /\ \E i \in CallIdx(p, "CreateRepositoryTag") : calls[i].res = NoErr}

\* the run of p is over, with one result, after no more calls than one for
\* each tag of the head and nine around them
Terminated(p) ==
  /\ pc[p] = "done"
  /\ Cardinality(TerminalResults(p)) = 1
  /\ Cardinality({i \in 1..Len(calls) : calls[i].proc = p})
       <= Len(repositoryCommit[p].tags) + 9

\* C33: every run of push ends, whatever the head lists and whatever the
\* collaborators answer: it reaches a state in which it is over for good, with
\* exactly one of the results skipped-identical, skipped-behind, pushed-new,
\* tagged-existing and error, after a bounded number of calls.
C33_Terminates == <>[](\A p \in active : Terminated(p))

\* a run is over that compared every tag of a head of MaxTags tags, pushed
\* and tagged the head
C33_Witness ==
  \E p \in active :
    /\ Terminated(p)
    /\ Len(repositoryCommit[p].tags) = MaxTags
    /\ Len(CallsOf(p, "CompareCommits")) = MaxTags
    /\ TerminalResults(p) = {"tagged-existing"}

\* ------------------------------------------------------------------------
\* The process boundary
\* ------------------------------------------------------------------------
\* C34: when push or delete-track has returned an error, the error that
\* leaves the process is "::error::" followed by the text of that error, it is
\* what stderr holds, and the exit code is not zero; when the subcommand has
\* returned no error, no error leaves the process, nothing is on stderr and the
\* exit code is zero.  The interceptor writes nothing to stdout.
C34_ErrorsIntercepted ==
  \A p \in active :
    IF exit[p].exited
    THEN /\ pc[p] = "done"
         /\ IF ret[p].state = "error"
            THEN /\ Len(exit[p].err) = 2
                 /\ exit[p].err[1] = "::error::"
                 /\ exit[p].err[2] = ret[p].msg
                 /\ exit[p].stderr = <<exit[p].err>>
                 /\ exit[p].code # 0
            ELSE /\ ret[p] = Ok
                 /\ exit[p].err = <<>>
                 /\ exit[p].stderr = <<>>
                 /\ exit[p].code = 0
    ELSE exit[p] = NoExit

\* a push that failed on the error of Push has left the process
C34_Witness ==
  \E p \in active :
    /\ exit[p].exited /\ exit[p].code # 0
    /\ \E i \in CallIdx(p, "Push") : calls[i].res.err = RpcOther
    /\ exit[p].err = <<"::error::", RpcOther>>

\* a delete-track that failed on a call to the registry has left the process
C34_WitnessDelete ==
  \E p \in active :
    /\ exit[p].exited /\ exit[p].code # 0
    /\ CallIdx(p, "DeleteRepositoryTrackByName") # {}

\* a run that wrote a notice and returned no error has left the process
C34_WitnessNoError ==
  \E p \in active :
    /\ exit[p].exited /\ exit[p].code = 0 /\ exit[p].stderr = <<>>
    /\ Notices(p) # <<>>

\* ------------------------------------------------------------------------
\* github.IsResponseError
\* ------------------------------------------------------------------------
\* C35: IsResponseError(code, err) is true exactly when err is (or wraps) a
\* github error response that has an http response whose status code is code;
\* so it is false for a nil error, for an error that is no github error
\* response, for an error response without http response, and for another
\* status code.
C35_IsResponseError ==
  rt.applied =>
    /\ rt.result =
         (/\ rt.err.kind = "ErrorResponse"
          /\ ~rt.err.Response.nil
          /\ rt.err.Response.StatusCode = rt.statusCode)
    /\ rt.err.kind = "nil" => ~rt.result
    /\ rt.err.kind = "other" => ~rt.result
    /\ rt.err.Response.nil => ~rt.result
    /\ rt.err.Response.StatusCode # rt.statusCode => ~rt.result

\* the error response without http response, asked for the status code 0
C35_Witness ==
  /\ rt.applied
  /\ rt.err.kind = "ErrorResponse" /\ rt.err.Response.nil /\ rt.statusCode = 0
  /\ ~rt.result

\* a 404 response below a wrapper, asked for 404
C35_WitnessTrue ==
  /\ rt.applied
  /\ rt.err.kind = "ErrorResponse" /\ rt.err.wraps = 1
  /\ rt.statusCode = 404 /\ rt.result

====
